---- MODULE Spec2Model ----
(***************************************************************************)
(* A model of jissue: the template store (templates.py), the Jira client   *)
(* adapter (jira_client.py) and the MCP tool dispatcher (server.py).       *)
(*                                                                         *)
(* Text is modelled as Python models it: a str is a sequence of            *)
(* characters, each character a one-character string ("U+2713" stands for  *)
(* the single character of that code point).  An optional value (a key     *)
(* that may be absent from a dict, or a value that may be None) is a       *)
(* sequence of length 0 (absent / None) or 1 (the value).                  *)
(***************************************************************************)
EXTENDS Integers, Sequences, FiniteSets, TLC

VARIABLES
    template_dir,       \* ~/.jissue/templates as glob("*.md") lists it
    template_manager,   \* JissueServer.template_manager: the two template dicts
    config_file,        \* ~/.jissue/config.json as the file system holds it
    jira_client,        \* JissueServer.jira_client: None or the one wrapper
    connections,        \* how many JIRA(...) connections were ever opened
    request,            \* the tool call being answered: name and arguments
    connects,           \* JIRA(...) constructor calls made by this tool call
    remote_calls,       \* remote API calls made by this tool call
    response,           \* what call_tool returned: a list of TextContent
    raised,             \* TRUE when call_tool raised to its caller instead
    logged,             \* the exception call_tool caught and logged, if any
    lookup,             \* the last template-store operation and its result
    cli,                \* the launcher process (cli.py): position, files, output
    loop                \* the event loop call_tool runs on: its tasks and the client

vars ==
    <<template_dir, template_manager, config_file, jira_client, connections, request,
      connects, remote_calls, response, raised, logged, lookup, cli, loop>>

-----------------------------------------------------------------------------
(* Bounds of the model. *)

\* Most override files in the templates directory.
MaxFiles == 2

\* The connection counter saturates here ("this many or more").
MaxConnections == 3

\* Most tool calls the driver has handed to the event loop.
MaxTasks == 3

-----------------------------------------------------------------------------
(* Python values. *)

None == <<>>

Some(v) == <<v>>

IsNone(o) == o = <<>>

\* Python truthiness of an optional str: None and "" are falsy.
Truthy(o) == o # <<>> /\ o[1] # <<>>

UpperCase ==
    <<"A","B","C","D","E","F","G","H","I","J","K","L","M",
      "N","O","P","Q","R","S","T","U","V","W","X","Y","Z">>

LowerCase ==
    <<"a","b","c","d","e","f","g","h","i","j","k","l","m",
      "n","o","p","q","r","s","t","u","v","w","x","y","z">>

Whitespace == {" ", "\t", "\n", "\r"}

LowerChar(c) ==
    IF \E i \in DOMAIN UpperCase : UpperCase[i] = c
    THEN LowerCase[CHOOSE i \in DOMAIN UpperCase : UpperCase[i] = c]
    ELSE c

UpperChar(c) ==
    IF \E i \in DOMAIN LowerCase : LowerCase[i] = c
    THEN UpperCase[CHOOSE i \in DOMAIN LowerCase : LowerCase[i] = c]
    ELSE c

\* str.lower()
Lower(s) == [i \in DOMAIN s |-> LowerChar(s[i])]

\* str.upper()
Upper(s) == [i \in DOMAIN s |-> UpperChar(s[i])]

\* str.capitalize(): first character upper-cased, the rest lower-cased.
Capitalize(s) ==
    [i \in DOMAIN s |-> IF i = 1 THEN UpperChar(s[i]) ELSE LowerChar(s[i])]

RECURSIVE LStrip(_)
LStrip(s) ==
    IF s # <<>> /\ Head(s) \in Whitespace THEN LStrip(Tail(s)) ELSE s

RECURSIVE RStrip(_)
RStrip(s) ==
    IF s # <<>> /\ s[Len(s)] \in Whitespace
    THEN RStrip(SubSeq(s, 1, Len(s) - 1))
    ELSE s

\* str.strip()
Strip(s) == RStrip(LStrip(s))

Digits == <<"0","1","2","3","4","5","6","7","8","9">>

\* str(n) for a natural number n.
RECURSIVE IntStr(_)
IntStr(n) ==
    IF n < Len(Digits)
    THEN <<Digits[n + 1]>>
    ELSE IntStr(n \div Len(Digits)) \o <<Digits[(n % Len(Digits)) + 1]>>

\* sep.join(parts)
RECURSIVE Join(_, _)
Join(sep, parts) ==
    IF parts = <<>> THEN <<>>
    ELSE IF Len(parts) = 1 THEN parts[1]
    ELSE parts[1] \o sep \o Join(sep, Tail(parts))

\* The concatenation of a list of strings.
RECURSIVE Concat(_)
Concat(parts) ==
    IF parts = <<>> THEN <<>> ELSE Head(parts) \o Concat(Tail(parts))

\* The lists that hold every element of the finite set S exactly once.
Orders(S) ==
    {o \in [1..Cardinality(S) -> S] :
        \A i, j \in 1..Cardinality(S) : i # j => o[i] # o[j]}

\* A dict is the list of its (key, value) pairs in insertion order, keys unique.
HasKey(d, k) == \E i \in DOMAIN d : d[i][1] = k

\* d[k], for a key the dict holds.
Item(d, k) == d[CHOOSE i \in DOMAIN d : d[i][1] = k][2]

\* dict.get(k): the value as an optional, None when the key is absent.
DictGet(d, k) == IF HasKey(d, k) THEN Some(Item(d, k)) ELSE None

\* d[k] = v: an existing key keeps its place, a new key goes last.
SetItem(d, k, v) ==
    IF HasKey(d, k)
    THEN [i \in DOMAIN d |-> IF d[i][1] = k THEN <<k, v>> ELSE d[i]]
    ELSE Append(d, <<k, v>>)

\* d.update(e): the keys of d keep their places and take e's values, the
\* keys only e has follow in e's order.
Update(d, e) ==
    [i \in DOMAIN d |-> IF HasKey(e, d[i][1]) THEN <<d[i][1], Item(e, d[i][1])>> ELSE d[i]]
        \o SelectSeq(e, LAMBDA pair : ~HasKey(d, pair[1]))

\* list(d.keys())
Keys(d) == [i \in DOMAIN d |-> d[i][1]]

-----------------------------------------------------------------------------
(* templates.py: the template store. *)

DefaultTemplateText ==
    [ story |-> <<"*","*","A","s"," ","a","*","*"," ","[","u","s","e","r"," ","t","y","p","e","]">>,
      bug |-> <<"#","#"," ","D","e","s","c","r","i","p","t","i","o","n">>,
      task |-> <<"#","#"," ","O","b","j","e","c","t","i","v","e">>,
      spike |-> <<"#","#"," ","R","e","s","e","a","r","c","h"," ","Q","u","e","s","t","i","o","n">>,
      epic |-> <<"#","#"," ","V","i","s","i","o","n">> ]

\* _get_default_templates(): the five built-in templates, each body cut to
\* its first line (the store never looks inside a template).
_get_default_templates ==
    << <<<<"s","t","o","r","y">>, DefaultTemplateText.story>>,
       <<<<"b","u","g">>, DefaultTemplateText.bug>>,
       <<<<"t","a","s","k">>, DefaultTemplateText.task>>,
       <<<<"s","p","i","k","e">>, DefaultTemplateText.spike>>,
       <<<<"e","p","i","c">>, DefaultTemplateText.epic>> >>

\* _load_custom_templates(): files is what custom_dir.glob("*.md") yields, in
\* the order it yields it; each file is [stem, text, readable].  The try
\* block encloses the whole loop: the first file that cannot be read ends it.
RECURSIVE LoadFiles(_, _)
LoadFiles(files, templates) ==
    IF files = <<>> THEN templates
    ELSE IF ~Head(files).readable THEN templates
    ELSE LoadFiles(Tail(files),
                   SetItem(templates, Head(files).stem, Head(files).text))

_load_custom_templates(files) == LoadFiles(files, <<>>)

\* TemplateManager.__init__: dir is [exists, files].
TemplateManager(dir) ==
    [ default_templates |-> _get_default_templates,
      custom_templates |->
          IF dir.exists THEN _load_custom_templates(dir.files) ELSE <<>> ]

\* get_template(issue_type): an optional str.
get_template(tm, issue_type) ==
    LET key == Lower(issue_type)
    IN IF HasKey(tm.custom_templates, key)
       THEN Some(Item(tm.custom_templates, key))
       ELSE DictGet(tm.default_templates, key)

get_all_templates(tm) == Update(tm.default_templates, tm.custom_templates)

list_templates(tm) == Keys(get_all_templates(tm))

-----------------------------------------------------------------------------
(* Exceptions and results.  Every operation below yields a result: either  *)
(* the value it returns or the exception it raises (class and str(e)).     *)

Return(v) == [raised |-> FALSE, type |-> "", msg |-> <<>>, value |-> v]

Raise(type, msg) == [raised |-> TRUE, type |-> type, msg |-> msg, value |-> None]

PyText ==
    [ none |-> <<"N","o","n","e">>,
      quote |-> <<"'">> ]

\* str(KeyError(k)) is repr(k).
KeyErrorMsg(k) == PyText.quote \o k \o PyText.quote

\* str(o) for an optional str, as an f-string prints it.
Str(o) == IF IsNone(o) THEN PyText.none ELSE o[1]

-----------------------------------------------------------------------------
(* jira_client.py: the client adapter. *)

LoadConfigText ==
    [ not_found |->
          <<"C","o","n","f","i","g","u","r","a","t","i","o","n"," ","f","i","l","e"," ","n","o",
            "t"," ","f","o","u","n","d",":"," ">>,
      path |->
          <<"/","h","o","m","e","/","u","s","e","r","/",".","j","i","s","s","u","e","/","c","o",
            "n","f","i","g",".","j","s","o","n">>,
      help |->
          <<"\n","\n","P","l","e","a","s","e"," ","c","r","e","a","t","e"," ","~","/",".","j","i",
            "s","s","u","e","/","c","o","n","f","i","g",".","j","s","o","n"," ","w","i","t","h",
            " ","t","h","e"," ","f","o","l","l","o","w","i","n","g"," ","s","t","r","u","c","t",
            "u","r","e",":","\n","{","\n"," "," ","\"","j","i","r","a","_","u","r","l","\"",":",
            " ","\"","h","t","t","p","s",":","/","/","y","o","u","r","-","d","o","m","a","i","n",
            ".","a","t","l","a","s","s","i","a","n",".","n","e","t","\"",",","\n"," "," ","\"",
            "e","m","a","i","l","\"",":"," ","\"","y","o","u","r","-","e","m","a","i","l","@","e",
            "x","a","m","p","l","e",".","c","o","m","\"",",","\n"," "," ","\"","a","p","i","_",
            "t","o","k","e","n","\"",":"," ","\"","y","o","u","r","-","a","p","i","-","t","o","k",
            "e","n","\"",",","\n"," "," ","\"","d","e","f","a","u","l","t","_","p","r","o","j",
            "e","c","t","\"",":"," ","\"","P","R","O","J","\"","\n","}">>,
      json_error |->
          <<"E","x","p","e","c","t","i","n","g"," ","v","a","l","u","e",":"," ","l","i","n","e",
            " ","1"," ","c","o","l","u","m","n"," ","1"," ","(","c","h","a","r"," ","0",")">> ]

ConnectText ==
    [ invalid |->
          <<"I","n","v","a","l","i","d"," ","c","o","n","f","i","g",":"," ","m","u","s","t"," ",
            "h","a","v","e"," ","e","i","t","h","e","r"," ","'","t","o","k","e","n","'"," ","f",
            "o","r"," ","t","o","k","e","n"," ","a","u","t","h",","," ","(","e","m","a","i","l",
            ","," ","a","p","i","_","t","o","k","e","n",")"," ","f","o","r"," ","C","l","o","u",
            "d",","," ","o","r"," ","(","u","s","e","r","n","a","m","e",","," ","p","a","s","s",
            "w","o","r","d",")"," ","f","o","r"," ","D","a","t","a"," ","C","e","n","t","e","r">> ]

ClientErrorText ==
    [ create |->
          <<"F","a","i","l","e","d"," ","t","o"," ","c","r","e","a","t","e"," ","J","i","r","a",
            " ","i","s","s","u","e",":"," ">>,
      projects |->
          <<"F","a","i","l","e","d"," ","t","o"," ","g","e","t"," ","J","i","r","a"," ","p","r",
            "o","j","e","c","t","s",":"," ">>,
      search |->
          <<"F","a","i","l","e","d"," ","t","o"," ","s","e","a","r","c","h"," ","J","i","r","a",
            " ","i","s","s","u","e","s",":"," ">>,
      issue |->
          <<"F","a","i","l","e","d"," ","t","o"," ","g","e","t"," ","J","i","r","a"," ","i","s",
            "s","u","e"," ">>,
      colon |-> <<":"," ">>,
      metadata |->
          <<"F","a","i","l","e","d"," ","t","o"," ","g","e","t"," ","p","r","o","j","e","c","t",
            " ","m","e","t","a","d","a","t","a",":"," ">> ]

JqlText ==
    [ summary |-> <<"(","s","u","m","m","a","r","y"," ","~"," ","\"">>,
      description |->
          <<"\""," ","O","R"," ","d","e","s","c","r","i","p","t","i","o","n"," ","~"," ","\"">>,
      close |-> <<"\"",")">>,
      project |-> <<"p","r","o","j","e","c","t"," ","="," ">>,
      order |->
          <<"O","R","D","E","R"," ","B","Y"," ","u","p","d","a","t","e","d"," ","D","E","S","C">>,
      and_ |-> <<" ","A","N","D"," ">>,
      space |-> <<" ">>,
      fields |->
          <<"s","u","m","m","a","r","y",",","i","s","s","u","e","t","y","p","e",",","s","t","a",
            "t","u","s",",","p","r","i","o","r","i","t","y",",","d","e","s","c","r","i","p","t",
            "i","o","n",",","a","s","s","i","g","n","e","e">> ]

UrlText ==
    [ browse |-> <<"/","b","r","o","w","s","e","/">> ]

\* _load_config(): file is [exists, valid, data]; data is the parsed dict.
_load_config(file) ==
    IF ~file.exists
    THEN Raise("FileNotFoundError",
               LoadConfigText.not_found \o LoadConfigText.path \o LoadConfigText.help)
    ELSE IF ~file.valid
    THEN Raise("JSONDecodeError", LoadConfigText.json_error)
    ELSE Return(file.data)

\* _connect() without its final else branch: a configuration with no
\* credential shape connects with no credentials.
ConnectArgsAnonymous(config) ==
    LET options == [server |-> config.jira_url, check_update |-> FALSE]
        proxies == IF "proxy" \in DOMAIN config
                   THEN Some([http |-> config.proxy, https |-> config.proxy])
                   ELSE None
    IN IF "token" \in DOMAIN config
       THEN Some([options |-> options, auth |-> "token_auth",
                  credentials |-> <<config.token>>,
                  get_server_info |-> Some(FALSE), proxies |-> proxies])
       ELSE IF "email" \in DOMAIN config /\ "api_token" \in DOMAIN config
       THEN Some([options |-> options, auth |-> "basic_auth",
                  credentials |-> <<config.email, config.api_token>>,
                  get_server_info |-> None, proxies |-> proxies])
       ELSE IF "username" \in DOMAIN config /\ "password" \in DOMAIN config
       THEN Some([options |-> options, auth |-> "basic_auth",
                  credentials |-> <<config.username, config.password>>,
                  get_server_info |-> None, proxies |-> proxies])
       ELSE Some([options |-> options, auth |-> "anonymous",
                  credentials |-> <<>>,
                  get_server_info |-> None, proxies |-> proxies])

\* The keyword arguments _connect() gives JIRA(...) for a configuration, or
\* None when no credential shape is present.  token is looked at first, then
\* (email, api_token), then (username, password).
ConnectArgs(config) ==
    LET options == [server |-> config.jira_url, check_update |-> FALSE]
        proxies == IF "proxy" \in DOMAIN config
                   THEN Some([http |-> config.proxy, https |-> config.proxy])
                   ELSE None
    IN IF "token" \in DOMAIN config
       THEN Some([options |-> options, auth |-> "token_auth",
                  credentials |-> <<config.token>>,
                  get_server_info |-> Some(FALSE), proxies |-> proxies])
       ELSE IF "email" \in DOMAIN config /\ "api_token" \in DOMAIN config
       THEN Some([options |-> options, auth |-> "basic_auth",
                  credentials |-> <<config.email, config.api_token>>,
                  get_server_info |-> None, proxies |-> proxies])
       ELSE IF "username" \in DOMAIN config /\ "password" \in DOMAIN config
       THEN Some([options |-> options, auth |-> "basic_auth",
                  credentials |-> <<config.username, config.password>>,
                  get_server_info |-> None, proxies |-> proxies])
       ELSE None

\* _connect() once the keyword arguments are known: args is ConnectArgs.
Connect(args, id, outcome) ==
    IF IsNone(args)
    THEN [result |-> Raise("ValueError", ConnectText.invalid), connects |-> <<>>]
    ELSE IF ~outcome.ok
    THEN [result |-> Raise("JIRAError", outcome.cause), connects |-> args]
    ELSE [result |-> Return([id |-> id, args |-> args[1]]), connects |-> args]

\* _connect(): id names the connection JIRA(...) would open; outcome is what
\* the constructor does, [ok, cause].  Yields the result and the list of
\* constructor calls made.
_connect(config, id, outcome) ==
    IF "jira_url" \notin DOMAIN config
    THEN [result |-> Raise("KeyError", KeyErrorMsg(<<"j","i","r","a","_","u","r","l">>)),
          connects |-> <<>>]
    ELSE Connect(ConnectArgs(config), id, outcome)

\* __init__ after _load_config(): loaded is its result, made that of _connect().
Wrapper(loaded, made) ==
    IF made.result.raised THEN made
    ELSE [result |-> Return([config |-> loaded.value, jira |-> made.result.value]),
          connects |-> made.connects]

Construct(loaded, id, outcome) ==
    IF loaded.raised THEN [result |-> loaded, connects |-> <<>>]
    ELSE Wrapper(loaded, _connect(loaded.value, id, outcome))

\* JiraClientWrapper(): the wrapper [config, jira], or the exception.
JiraClientWrapper(file, id, outcome) == Construct(_load_config(file), id, outcome)

issue_type_map ==
    << <<<<"s","t","o","r","y">>, <<"S","t","o","r","y">>>>,
       <<<<"b","u","g">>, <<"B","u","g">>>>,
       <<<<"t","a","s","k">>, <<"T","a","s","k">>>>,
       <<<<"s","p","i","k","e">>, <<"S","p","i","k","e">>>>,
       <<<<"e","p","i","c">>, <<"E","p","i","c">>>>,
       <<<<"s","u","b","t","a","s","k">>, <<"S","u","b","-","t","a","s","k">>>> >>

\* The table looked up with issue_type as given, not issue_type.lower().
JiraIssueTypeExact(issue_type) ==
    IF HasKey(issue_type_map, issue_type)
    THEN Item(issue_type_map, issue_type)
    ELSE Capitalize(issue_type)

\* The issue-type name create_issue() sends for issue_type.
JiraIssueType(issue_type) ==
    IF HasKey(issue_type_map, Lower(issue_type))
    THEN Item(issue_type_map, Lower(issue_type))
    ELSE Capitalize(issue_type)

\* The fields dict with priority and assignee always set, empty when not given.
IssueDictAlwaysSet(project, issue_type, summary, description, priority, assignee) ==
    [ project |-> [key |-> project],
      summary |-> summary,
      description |-> description,
      issuetype |-> [name |-> JiraIssueType(issue_type)],
      priority |-> [name |-> IF Truthy(priority) THEN priority[1] ELSE <<>>],
      assignee |-> [name |-> IF Truthy(assignee) THEN assignee[1] ELSE <<>>] ]

\* The fields dict create_issue() builds; priority and assignee are optional.
IssueDict(project, issue_type, summary, description, priority, assignee) ==
    [ project |-> [key |-> project],
      summary |-> summary,
      description |-> description,
      issuetype |-> [name |-> JiraIssueType(issue_type)] ]
      @@ (IF Truthy(priority) THEN [priority |-> [name |-> priority[1]]] ELSE <<>>)
      @@ (IF Truthy(assignee) THEN [assignee |-> [name |-> assignee[1]]] ELSE <<>>)

\* One call on the connection client.jira, and the exception it raised if any.
RemoteCall(client, op, args, error) ==
    [conn |-> client.jira.id, op |-> op, args |-> args, error |-> error]

\* What the k-th remote call of an operation raises under remote.
ErrorAt(remote, k) == IF remote.fail_at = k THEN Some(remote.cause) ELSE None

\* An adapter operation yields its result and the remote calls it made.  remote
\* is what the remote side does: [fail_at, cause, data], where fail_at = k > 0
\* makes the operation's k-th remote call raise cause and data is the answer.
create_issue(client, project, issue_type, summary, description, priority, assignee, remote) ==
    [ calls |->
          <<RemoteCall(client, "create_issue",
                [fields |-> IssueDict(project, issue_type, summary, description,
                                      priority, assignee)],
                ErrorAt(remote, 1))>>,
      result |->
          IF remote.fail_at = 0 THEN Return(remote.data.key)
          ELSE Raise("Exception", ClientErrorText.create \o remote.cause) ]

get_issue_url(client, issue_key) ==
    client.config.jira_url \o UrlText.browse \o issue_key

get_projects(client, remote) ==
    [ calls |-> <<RemoteCall(client, "projects", <<>>, ErrorAt(remote, 1))>>,
      result |->
          IF remote.fail_at = 0
          THEN Return([i \in DOMAIN remote.data |->
                          [key |-> remote.data[i].key, name |-> remote.data[i].name]])
          ELSE Raise("Exception", ClientErrorText.projects \o remote.cause) ]

\* The JQL built with "if query:" in place of "if query and query.strip():".
JqlUnstripped(query, project) ==
    LET text == IF query # <<>>
                THEN <<JqlText.summary \o query \o JqlText.description \o query
                           \o JqlText.close>>
                ELSE <<>>
        jql_parts == IF Truthy(project)
                     THEN Append(text, JqlText.project \o project[1])
                     ELSE text
    IN IF jql_parts = <<>> THEN JqlText.order
       ELSE Join(JqlText.and_, jql_parts) \o JqlText.space \o JqlText.order

\* The JQL search_issues() builds from the query text and the optional project.
Jql(query, project) ==
    LET text == IF query # <<>> /\ Strip(query) # <<>>
                THEN <<JqlText.summary \o query \o JqlText.description \o query
                           \o JqlText.close>>
                ELSE <<>>
        jql_parts == IF Truthy(project)
                     THEN Append(text, JqlText.project \o project[1])
                     ELSE text
    IN IF jql_parts = <<>> THEN JqlText.order
       ELSE Join(JqlText.and_, jql_parts) \o JqlText.space \o JqlText.order

\* The dict search_issues() and get_issue() make of a remote issue.
IssueRecord(client, issue) ==
    [ key |-> issue.key,
      summary |-> issue.summary,
      type |-> issue.issuetype,
      status |-> issue.status,
      priority |-> issue.priority,
      description |-> IF Truthy(issue.description) THEN issue.description[1] ELSE <<>>,
      assignee |-> issue.assignee,
      url |-> get_issue_url(client, issue.key) ]

\* The except clause re-raising the cause as it is ("raise").
search_issues_reraising(client, query, project, max_results, remote) ==
    [ calls |->
          <<RemoteCall(client, "search_issues",
                [jql |-> Jql(query, project), maxResults |-> max_results,
                 fields |-> JqlText.fields],
                ErrorAt(remote, 1))>>,
      result |->
          IF remote.fail_at = 0
          THEN Return([i \in DOMAIN remote.data |-> IssueRecord(client, remote.data[i])])
          ELSE Raise("Exception", remote.cause) ]

search_issues(client, query, project, max_results, remote) ==
    [ calls |->
          <<RemoteCall(client, "search_issues",
                [jql |-> Jql(query, project), maxResults |-> max_results,
                 fields |-> JqlText.fields],
                ErrorAt(remote, 1))>>,
      result |->
          IF remote.fail_at = 0
          THEN Return([i \in DOMAIN remote.data |-> IssueRecord(client, remote.data[i])])
          ELSE Raise("Exception", ClientErrorText.search \o remote.cause) ]

get_issue(client, issue_key, remote) ==
    [ calls |-> <<RemoteCall(client, "issue", issue_key, ErrorAt(remote, 1))>>,
      result |->
          IF remote.fail_at = 0
          THEN Return(IssueRecord(client, remote.data))
          ELSE Raise("Exception",
                     ClientErrorText.issue \o issue_key \o ClientErrorText.colon
                         \o remote.cause) ]

\* The lists asked for first and the project last.
MetadataCallsListsFirst(client, project_key, remote) ==
    <<RemoteCall(client, "priorities", <<>>, ErrorAt(remote, 1)),
      RemoteCall(client, "issue_types", <<>>, ErrorAt(remote, 2)),
      RemoteCall(client, "project", project_key, ErrorAt(remote, 3))>>

\* get_project_metadata() asks for the project, then all priorities, then all
\* issue types; the first call that raises ends it.
MetadataCalls(client, project_key, remote) ==
    <<RemoteCall(client, "project", project_key, ErrorAt(remote, 1)),
      RemoteCall(client, "priorities", <<>>, ErrorAt(remote, 2)),
      RemoteCall(client, "issue_types", <<>>, ErrorAt(remote, 3))>>

get_project_metadata(client, project_key, remote) ==
    [ calls |->
          IF remote.fail_at = 0 THEN MetadataCalls(client, project_key, remote)
          ELSE SubSeq(MetadataCalls(client, project_key, remote), 1, remote.fail_at),
      result |->
          IF remote.fail_at = 0
          THEN Return([project |-> [key |-> remote.data.project.key,
                                    name |-> remote.data.project.name],
                       priorities |-> remote.data.priorities,
                       issue_types |-> remote.data.issue_types])
          ELSE Raise("Exception", ClientErrorText.metadata \o remote.cause) ]

-----------------------------------------------------------------------------
(* server.py: the tool handlers.  A handler yields an effect: the client   *)
(* reference and connection count it leaves, the constructor calls and     *)
(* remote calls it made, and its result (a list of TextContent, or the     *)
(* exception it raised).                                                   *)

ToolName ==
    [ get_issue_templates |->
          <<"g","e","t","_","i","s","s","u","e","_","t","e","m","p","l","a","t","e","s">>,
      create_jira_issue |-> <<"c","r","e","a","t","e","_","j","i","r","a","_","i","s","s","u","e">>,
      get_jira_projects |-> <<"g","e","t","_","j","i","r","a","_","p","r","o","j","e","c","t","s">>,
      search_jira_issues |->
          <<"s","e","a","r","c","h","_","j","i","r","a","_","i","s","s","u","e","s">>,
      get_jira_issue |-> <<"g","e","t","_","j","i","r","a","_","i","s","s","u","e">>,
      get_project_metadata |->
          <<"g","e","t","_","p","r","o","j","e","c","t","_","m","e","t","a","d","a","t","a">> ]

CallToolText ==
    [ unknown_tool |-> <<"U","n","k","n","o","w","n"," ","t","o","o","l",":"," ">>,
      error |-> <<"E","r","r","o","r",":"," ">> ]

ValidationText ==
    [ head |->
          <<" ","v","a","l","i","d","a","t","i","o","n"," ","e","r","r","o","r"," ","f","o","r",
            " ","I","s","s","u","e","I","n","p","u","t">>,
      heads |->
          <<" ","v","a","l","i","d","a","t","i","o","n"," ","e","r","r","o","r","s"," ","f","o",
            "r"," ","I","s","s","u","e","I","n","p","u","t">>,
      project |->
          <<"\n","p","r","o","j","e","c","t","\n"," "," ","F","i","e","l","d"," ","r","e","q","u",
            "i","r","e","d">>,
      issue_type |->
          <<"\n","i","s","s","u","e","_","t","y","p","e","\n"," "," ","F","i","e","l","d"," ","r",
            "e","q","u","i","r","e","d">>,
      summary |->
          <<"\n","s","u","m","m","a","r","y","\n"," "," ","F","i","e","l","d"," ","r","e","q","u",
            "i","r","e","d">>,
      description |->
          <<"\n","d","e","s","c","r","i","p","t","i","o","n","\n"," "," ","F","i","e","l","d"," ",
            "r","e","q","u","i","r","e","d">> ]

TemplatesText ==
    [ h1 |-> <<"#"," ">>,
      suffix |-> <<" ","T","e","m","p","l","a","t","e","\n","\n">>,
      not_found |->
          <<"N","o"," ","t","e","m","p","l","a","t","e"," ","f","o","u","n","d"," ","f","o","r",
            " ","i","s","s","u","e"," ","t","y","p","e",":"," ">>,
      available |->
          <<"\n","\n","A","v","a","i","l","a","b","l","e"," ","t","y","p","e","s",":"," ">>,
      comma |-> <<","," ">>,
      all |->
          <<"#"," ","A","v","a","i","l","a","b","l","e"," ","I","s","s","u","e"," ","T","e","m",
            "p","l","a","t","e","s","\n","\n">>,
      h2 |-> <<"#","#"," ">>,
      nlnl |-> <<"\n","\n">>,
      rule |-> <<"\n","\n","-","-","-","\n","\n">> ]

CreateText ==
    [ check |-> <<"U+2713">>,
      created |->
          <<" ","C","r","e","a","t","e","d"," ","J","i","r","a"," ","i","s","s","u","e",":"," ">>,
      url |-> <<"\n","\n","U","R","L",":"," ">>,
      summary |-> <<"\n","\n","S","u","m","m","a","r","y",":"," ">> ]

ProjectsText ==
    [ header |->
          <<"#"," ","A","v","a","i","l","a","b","l","e"," ","J","i","r","a"," ","P","r","o","j",
            "e","c","t","s","\n","\n">>,
      open |-> <<"-"," ","*","*">>,
      close |-> <<"*","*",":"," ">>,
      nl |-> <<"\n">> ]

SearchText ==
    [ none |->
          <<"N","o"," ","i","s","s","u","e","s"," ","f","o","u","n","d"," ","m","a","t","c","h",
            "i","n","g",":"," ">>,
      found |-> <<"#"," ","F","o","u","n","d"," ">>,
      issues |-> <<" ","i","s","s","u","e","(","s",")","\n","\n">>,
      h2 |-> <<"#","#"," ">>,
      colon |-> <<":"," ">>,
      nl |-> <<"\n">>,
      type |-> <<"*","*","T","y","p","e",":","*","*"," ">>,
      status |-> <<" ","|"," ","*","*","S","t","a","t","u","s",":","*","*"," ">>,
      priority |-> <<" ","|"," ","*","*","P","r","i","o","r","i","t","y",":","*","*"," ">>,
      na |-> <<"N","/","A">>,
      url |-> <<"*","*","U","R","L",":","*","*"," ">>,
      description |-> <<"*","*","D","e","s","c","r","i","p","t","i","o","n",":","*","*"," ">>,
      ellipsis |-> <<".",".",".">>,
      rule |-> <<"\n","-","-","-","\n","\n">> ]

IssueText ==
    [ h1 |-> <<"#"," ">>,
      colon |-> <<":"," ">>,
      nlnl |-> <<"\n","\n">>,
      nl |-> <<"\n">>,
      type |-> <<"*","*","T","y","p","e",":","*","*"," ">>,
      status |-> <<"*","*","S","t","a","t","u","s",":","*","*"," ">>,
      priority |-> <<"*","*","P","r","i","o","r","i","t","y",":","*","*"," ">>,
      na |-> <<"N","/","A">>,
      assignee |-> <<"*","*","A","s","s","i","g","n","e","e",":","*","*"," ">>,
      unassigned |-> <<"U","n","a","s","s","i","g","n","e","d">>,
      url |-> <<"*","*","U","R","L",":","*","*"," ">>,
      description |-> <<"#","#"," ","D","e","s","c","r","i","p","t","i","o","n","\n","\n">>,
      no_description |-> <<"N","o"," ","d","e","s","c","r","i","p","t","i","o","n">> ]

MetadataText ==
    [ h1 |-> <<"#"," ">>,
      dash |-> <<" ","-"," ">>,
      nlnl |-> <<"\n","\n">>,
      priorities |->
          <<"#","#"," ","A","v","a","i","l","a","b","l","e"," ","P","r","i","o","r","i","t","i",
            "e","s","\n">>,
      bullet |-> <<"-"," ">>,
      nl |-> <<"\n">>,
      issue_types |->
          <<"\n","#","#"," ","A","v","a","i","l","a","b","l","e"," ","I","s","s","u","e"," ","T",
            "y","p","e","s","\n">> ]

\* args.get("max_results", 10)
DefaultMaxResults == 10

\* issue['description'][:200]
DescriptionLimit == 200

TextContent(text) == [type |-> "text", text |-> text]

Effect(client, count, made, calls, result) ==
    [client |-> client, connections |-> count, connects |-> made,
     calls |-> calls, result |-> result]

\* d.get(k, default) on a dict with fixed keys.
GetOr(d, k, default) == IF k \in DOMAIN d THEN d[k] ELSE default

\* self.jira_client = JiraClientWrapper(): new is what the constructor yields,
\* id the connection it would open.
Assign(client, count, id, new) ==
    IF new.result.raised
    THEN Effect(client, count, new.connects, <<>>, new.result)
    ELSE Effect(Some(new.result.value), id, new.connects, <<>>, Return(None))

\* The check "is None" left out: every call constructs a new wrapper.
EnsureClientAlways(client, count, file, outcome) ==
    Assign(client, count, IF count < MaxConnections THEN count + 1 ELSE count,
           JiraClientWrapper(file, IF count < MaxConnections THEN count + 1 ELSE count,
                             outcome))

\* "if self.jira_client is None: self.jira_client = JiraClientWrapper()".
\* file is the configuration file, outcome what JIRA(...) does.
EnsureClient(client, count, file, outcome) ==
    IF ~IsNone(client)
    THEN Effect(client, count, <<>>, <<>>, Return(None))
    ELSE Assign(client, count, IF count < MaxConnections THEN count + 1 ELSE count,
                JiraClientWrapper(file, IF count < MaxConnections THEN count + 1 ELSE count,
                                  outcome))

\* The handler goes on after the client check ensured: it made calls and ended
\* with result.
Then(ensured, calls, result) ==
    Effect(ensured.client, ensured.connections, ensured.connects, calls, result)

\* The client dropped when the adapter operation raised.
FinishDroppingClient(ensured, done, text) ==
    IF done.result.raised
    THEN Effect(None, ensured.connections, ensured.connects, done.calls, done.result)
    ELSE Then(ensured, done.calls, Return(<<TextContent(text)>>))

\* The handler ends with the adapter operation done: its exception, or text.
Finish(ensured, done, text) ==
    Then(ensured, done.calls,
         IF done.result.raised THEN done.result ELSE Return(<<TextContent(text)>>))

TemplateText(issue_type, template) ==
    TemplatesText.h1 \o Upper(issue_type) \o TemplatesText.suffix \o template

NoTemplateText(issue_type, names) ==
    TemplatesText.not_found \o issue_type \o TemplatesText.available
        \o Join(TemplatesText.comma, names)

AllTemplatesText(all) ==
    TemplatesText.all
        \o Concat([i \in DOMAIN all |->
               TemplatesText.h2 \o Upper(all[i][1]) \o TemplatesText.nlnl
                   \o all[i][2] \o TemplatesText.rule])

OneTemplateText(tm, issue_type, template) ==
    IF Truthy(template)
    THEN TemplateText(issue_type, template[1])
    ELSE NoTemplateText(issue_type, list_templates(tm))

_get_issue_templates(tm, args) ==
    Return(<<TextContent(
        IF Truthy(args.issue_type)
        THEN OneTemplateText(tm, args.issue_type[1],
                             get_template(tm, args.issue_type[1]))
        ELSE AllTemplatesText(get_all_templates(tm)))>>)

\* IssueInput(**args): the required fields that are missing, in field order.
RequiredFields == <<"project", "issue_type", "summary", "description">>

MissingFields(args) == SelectSeq(RequiredFields, LAMBDA f : IsNone(args[f]))

\* str() of the ValidationError pydantic raises for the missing fields, each
\* entry cut to its field and its first line.
ValidationMsg(missing) ==
    IntStr(Len(missing))
        \o (IF Len(missing) = 1 THEN ValidationText.head ELSE ValidationText.heads)
        \o Concat([i \in DOMAIN missing |-> ValidationText[missing[i]]])

CreatedText(issue_key, issue_url, summary) ==
    CreateText.check \o CreateText.created \o issue_key
        \o CreateText.url \o issue_url \o CreateText.summary \o summary

Created(args, ensured, created) ==
    Finish(ensured, created,
           CreatedText(created.result.value,
                       get_issue_url(ensured.client[1], created.result.value),
                       args.summary[1]))

CreateWith(args, ensured, remote) ==
    IF ensured.result.raised THEN ensured
    ELSE Created(args, ensured,
                 create_issue(ensured.client[1], args.project[1], args.issue_type[1],
                              args.summary[1], args.description[1],
                              args.priority, args.assignee, remote))

_create_jira_issue(args, client, count, file, outcome, remote) ==
    IF MissingFields(args) # <<>>
    THEN Effect(client, count, <<>>, <<>>,
                Raise("ValidationError", ValidationMsg(MissingFields(args))))
    ELSE CreateWith(args, EnsureClient(client, count, file, outcome), remote)

ProjectsListText(projects) ==
    ProjectsText.header
        \o Concat([i \in DOMAIN projects |->
               ProjectsText.open \o projects[i].key \o ProjectsText.close
                   \o projects[i].name \o ProjectsText.nl])

ProjectsGot(ensured, got) ==
    Finish(ensured, got, ProjectsListText(got.result.value))

ProjectsWith(ensured, remote) ==
    IF ensured.result.raised THEN ensured
    ELSE ProjectsGot(ensured, get_projects(ensured.client[1], remote))

_get_jira_projects(args, client, count, file, outcome, remote) ==
    ProjectsWith(EnsureClient(client, count, file, outcome), remote)

\* desc = issue['description'][:200], with "..." after a longer description.
Truncated(description) ==
    IF Len(description) > DescriptionLimit
    THEN SubSeq(description, 1, DescriptionLimit) \o SearchText.ellipsis
    ELSE description

\* The block _search_jira_issues() writes for one issue.
SearchEntry(issue) ==
    SearchText.h2 \o issue.key \o SearchText.colon \o issue.summary \o SearchText.nl
        \o SearchText.type \o issue.type \o SearchText.status \o issue.status
        \o SearchText.priority \o Str(GetOr(issue, "priority", Some(SearchText.na)))
        \o SearchText.nl
        \o SearchText.url \o issue.url \o SearchText.nl
        \o (IF GetOr(issue, "description", <<>>) # <<>>
            THEN SearchText.description \o Truncated(issue.description) \o SearchText.nl
            ELSE <<>>)
        \o SearchText.rule

SearchResultText(query, issues) ==
    IF issues = <<>>
    THEN SearchText.none \o query
    ELSE SearchText.found \o IntStr(Len(issues)) \o SearchText.issues
             \o Concat([i \in DOMAIN issues |-> SearchEntry(issues[i])])

SearchFound(args, ensured, found) ==
    Finish(ensured, found, SearchResultText(args.query[1], found.result.value))

SearchWith(args, ensured, remote) ==
    IF ensured.result.raised THEN ensured
    ELSE IF IsNone(args.query)
    THEN Then(ensured, <<>>, Raise("KeyError", KeyErrorMsg(<<"q","u","e","r","y">>)))
    ELSE SearchFound(args, ensured,
             search_issues(ensured.client[1], args.query[1], args.project,
                           IF IsNone(args.max_results) THEN DefaultMaxResults
                           ELSE args.max_results[1],
                           remote))

_search_jira_issues(args, client, count, file, outcome, remote) ==
    SearchWith(args, EnsureClient(client, count, file, outcome), remote)

IssueDetailText(issue) ==
    IssueText.h1 \o issue.key \o IssueText.colon \o issue.summary \o IssueText.nlnl
        \o IssueText.type \o issue.type \o IssueText.nl
        \o IssueText.status \o issue.status \o IssueText.nl
        \o IssueText.priority \o Str(GetOr(issue, "priority", Some(IssueText.na)))
        \o IssueText.nl
        \o IssueText.assignee
        \o Str(GetOr(issue, "assignee", Some(IssueText.unassigned))) \o IssueText.nl
        \o IssueText.url \o issue.url \o IssueText.nlnl
        \o IssueText.description
        \o GetOr(issue, "description", IssueText.no_description) \o IssueText.nl

IssueGot(ensured, got) ==
    Finish(ensured, got, IssueDetailText(got.result.value))

IssueWith(args, ensured, remote) ==
    IF ensured.result.raised THEN ensured
    ELSE IF IsNone(args.issue_key)
    THEN Then(ensured, <<>>,
              Raise("KeyError", KeyErrorMsg(<<"i","s","s","u","e","_","k","e","y">>)))
    ELSE IssueGot(ensured, get_issue(ensured.client[1], args.issue_key[1], remote))

_get_jira_issue(args, client, count, file, outcome, remote) ==
    IssueWith(args, EnsureClient(client, count, file, outcome), remote)

MetadataResultText(metadata) ==
    MetadataText.h1 \o metadata.project.key \o MetadataText.dash
        \o metadata.project.name \o MetadataText.nlnl
        \o MetadataText.priorities
        \o Concat([i \in DOMAIN metadata.priorities |->
               MetadataText.bullet \o metadata.priorities[i] \o MetadataText.nl])
        \o MetadataText.issue_types
        \o Concat([i \in DOMAIN metadata.issue_types |->
               MetadataText.bullet \o metadata.issue_types[i] \o MetadataText.nl])

MetadataGot(ensured, got) ==
    Finish(ensured, got, MetadataResultText(got.result.value))

MetadataWith(args, ensured, remote) ==
    IF ensured.result.raised THEN ensured
    ELSE IF IsNone(args.project_key)
    THEN Then(ensured, <<>>,
              Raise("KeyError",
                    KeyErrorMsg(<<"p","r","o","j","e","c","t","_","k","e","y">>)))
    ELSE MetadataGot(ensured,
             get_project_metadata(ensured.client[1], args.project_key[1], remote))

_get_project_metadata(args, client, count, file, outcome, remote) ==
    MetadataWith(args, EnsureClient(client, count, file, outcome), remote)

-----------------------------------------------------------------------------
(* The templates directory and the issue types asked for. *)

FileStem ==
    [ bug |-> <<"b","u","g">>,
      Bug |-> <<"B","u","g">>,
      notes |-> <<"n","o","t","e","s">> ]

FileText ==
    [ bug |-> <<"m","y"," ","b","u","g"," ","t","e","m","p","l","a","t","e">>,
      Bug |-> <<"M","y"," ","B","u","g"," ","T","e","m","p","l","a","t","e">>,
      notes |-> <<"m","y"," ","n","o","t","e","s">> ]

TypeInput ==
    [ bug |-> <<"b","u","g">>,
      Bug |-> <<"B","u","g">>,
      BUG |-> <<"B","U","G">>,
      notes |-> <<"n","o","t","e","s">>,
      story |-> <<"s","t","o","r","y">>,
      nope |-> <<"n","o","p","e">> ]

FilePool ==
    {[stem |-> FileStem[n], text |-> FileText[n], readable |-> r] :
        n \in DOMAIN FileStem, r \in BOOLEAN}

\* What glob("*.md") can yield: up to MaxFiles files, no stem twice, any order.
Listings ==
    UNION {{o \in [1..n -> FilePool] :
                \A i, j \in 1..n : i # j => o[i].stem # o[j].stem} :
           n \in 0..MaxFiles}

TemplateDirs ==
    {[exists |-> FALSE, files |-> <<>>]}
        \cup {[exists |-> TRUE, files |-> l] : l \in Listings}

TypeInputs == {TypeInput[n] : n \in DOMAIN TypeInput}

NoFile == [exists |-> FALSE, valid |-> FALSE, data |-> <<>>]

ConfigValue ==
    [ jira_url |-> <<"h","t","t","p","s",":","/","/","j",".","t","e","s","t">>,
      default_project |-> <<"P","R","O","J">>,
      proxy |-> <<"h","t","t","p",":","/","/","p","x">>,
      token |-> <<"t","o","k">>,
      email |-> <<"m","e","@","j",".","t","e","s","t">>,
      api_token |-> <<"a","p","i">>,
      username |-> <<"u","s","r">>,
      password |-> <<"p","w">> ]

Cause ==
    [ timeout |-> <<"r","e","a","d"," ","t","i","m","e","d"," ","o","u","t">>,
      denied |-> <<"H","T","T","P"," ","4","0","1">> ]

Given ==
    [ project |-> <<"P","R","O","J">>,
      other |-> <<"O","T","H","E","R">>,
      summary |-> <<"L","o","g","i","n"," ","f","a","i","l","s">>,
      description |-> <<"t","e","x","t">>,
      priority |-> <<"H","i","g","h">>,
      assignee |-> <<"a","l">>,
      query |-> <<"l","o","g","i","n">>,
      blank |-> <<" "," ">>,
      issue_key |-> <<"P","R","O","J","-","1">>,
      empty |-> <<>> ]

IssueTypeGiven ==
    [ story |-> <<"s","t","o","r","y">>,
      bug |-> <<"b","u","g">>,
      task |-> <<"t","a","s","k">>,
      spike |-> <<"s","p","i","k","e">>,
      epic |-> <<"e","p","i","c">>,
      subtask |-> <<"s","u","b","t","a","s","k">>,
      SubTask |-> <<"S","u","b","T","a","s","k">>,
      weirdType |-> <<"w","e","i","r","d","T","y","p","e">> ]

UnknownName ==
    [ foo |-> <<"f","o","o">>,
      create_issue |-> <<"c","r","e","a","t","e","_","i","s","s","u","e">>,
      empty |-> <<>> ]

Remote ==
    [ key1 |-> <<"P","R","O","J","-","1">>,
      key2 |-> <<"P","R","O","J","-","2">>,
      summary |-> <<"L","o","g","i","n"," ","f","a","i","l","s">>,
      bug |-> <<"B","u","g">>,
      task |-> <<"T","a","s","k">>,
      open |-> <<"O","p","e","n">>,
      high |-> <<"H","i","g","h">>,
      low |-> <<"L","o","w">>,
      text |-> <<"S","t","e","p","s">>,
      al |-> <<"A","l">>,
      name |-> <<"P","r","o","j","e","c","t">> ]

Opt(S) == {None} \cup {Some(v) : v \in S}

\* The key sets of the configurations tried: each credential shape alone, with
\* a proxy, two shapes at once, none, halves of two shapes, and no jira_url.
ConfigKeySets ==
    { {"jira_url", "default_project", "token"},
      {"jira_url", "default_project", "email", "api_token", "proxy"},
      {"jira_url", "default_project", "username", "password"},
      {"jira_url", "default_project", "token", "email", "api_token"},
      {"jira_url", "default_project", "email", "api_token", "username", "password"},
      {"jira_url", "default_project"},
      {"jira_url", "default_project", "email", "password"},
      {"default_project", "token"} }

ConfigFiles ==
    {NoFile, [exists |-> TRUE, valid |-> FALSE, data |-> <<>>]}
        \cup {[exists |-> TRUE, valid |-> TRUE, data |-> [k \in K |-> ConfigValue[k]]] :
                 K \in ConfigKeySets}

Causes == {Cause[n] : n \in DOMAIN Cause}

Connected == [ok |-> TRUE, cause |-> <<>>]

ConnectOutcomes == {Connected} \cup {[ok |-> FALSE, cause |-> c] : c \in Causes}

\* What the remote side can do to an operation of n remote calls that would
\* answer with one of datas.
RemoteOutcomes(datas, n) ==
    {[fail_at |-> 0, cause |-> <<>>, data |-> d] : d \in datas}
        \cup {[fail_at |-> k, cause |-> c, data |-> None] : k \in 1..n, c \in Causes}

NoRemote == [fail_at |-> 0, cause |-> <<>>, data |-> None]

RemoteIssues ==
    { [key |-> Remote.key1, summary |-> Remote.summary, issuetype |-> Remote.bug,
       status |-> Remote.open, priority |-> Some(Remote.high),
       description |-> Some(Remote.text), assignee |-> Some(Remote.al)],
      [key |-> Remote.key2, summary |-> Remote.summary, issuetype |-> Remote.task,
       status |-> Remote.open, priority |-> None,
       description |-> None, assignee |-> None] }

RemoteProject(key) == [key |-> key, name |-> Remote.name]

TemplatesArgs ==
    [issue_type : Opt({Given.empty} \cup TypeInputs)]

IssueTypesGiven == {IssueTypeGiven[n] : n \in DOMAIN IssueTypeGiven}

\* create_jira_issue arguments: every way of leaving required fields out,
\* every issue type, and every way of giving priority and assignee.
CreateArgs ==
    [project : Opt({Given.project}), issue_type : Opt({IssueTypeGiven.bug}),
     summary : Opt({Given.summary}), description : Opt({Given.description}),
     priority : {None}, assignee : {None}]
    \cup
    [project : {Some(Given.project)}, issue_type : {Some(t) : t \in IssueTypesGiven},
     summary : {Some(Given.summary)}, description : {Some(Given.description)},
     priority : {None}, assignee : {None}]
    \cup
    [project : {Some(Given.project)}, issue_type : {Some(IssueTypeGiven.bug)},
     summary : {Some(Given.summary)}, description : {Some(Given.description)},
     priority : Opt({Given.empty, Given.priority}),
     assignee : Opt({Given.empty, Given.assignee})]

\* search_jira_issues arguments: every query with every project, and one
\* search that gives max_results.
SearchArgs ==
    [query : Opt({Given.empty, Given.blank, Given.query}),
     project : Opt({Given.empty, Given.project}),
     max_results : {None}]
    \cup
    [query : {Some(Given.query)}, project : {None}, max_results : {Some(5)}]

IssueArgs == [issue_key : Opt({Given.issue_key})]

MetadataArgs == [project_key : Opt({Given.project, Given.other})]

UnknownNames == {UnknownName[n] : n \in DOMAIN UnknownName}

\* The directories the server is started with.
ServerTemplateDirs ==
    { [exists |-> TRUE,
       files |-> <<[stem |-> FileStem.bug, text |-> FileText.bug, readable |-> TRUE]>>] }

-----------------------------------------------------------------------------
(* The template store on its own. *)

\* No launcher process has been started.
NoLauncher == [pc |-> "none"]

\* The server's event loop holds no task.
NoTasks == [pc |-> "none"]

ServerIdle ==
    /\ config_file = NoFile
    /\ jira_client = None
    /\ connections = 0
    /\ request = None
    /\ connects = <<>>
    /\ remote_calls = <<>>
    /\ response = <<>>
    /\ raised = FALSE
    /\ logged = None
    /\ cli = NoLauncher
    /\ loop = NoTasks

InitTemplates ==
    /\ template_dir \in TemplateDirs
    /\ template_manager = TemplateManager(template_dir)
    /\ lookup = None
    /\ ServerIdle

UnchangedServer ==
    UNCHANGED <<template_dir, template_manager, config_file, jira_client, connections,
                request, connects, remote_calls, response, raised, logged, cli, loop>>

GetTemplate ==
    \E t \in TypeInputs :
        /\ lookup' = Some([op |-> "get_template", arg |-> Some(t),
                           result |-> get_template(template_manager, t)])
        /\ UnchangedServer

GetAllTemplates ==
    /\ lookup' = Some([op |-> "get_all_templates", arg |-> None,
                       result |-> get_all_templates(template_manager)])
    /\ UnchangedServer

ListTemplates ==
    /\ lookup' = Some([op |-> "list_templates", arg |-> None,
                       result |-> list_templates(template_manager)])
    /\ UnchangedServer

NextTemplates == GetTemplate \/ GetAllTemplates \/ ListTemplates

SpecTemplates == InitTemplates /\ [][NextTemplates]_vars

-----------------------------------------------------------------------------
(* server.py: call_tool, the dispatcher. *)

\* The classes "except Exception" catches: every exception raised here.
ExceptionClasses ==
    {"Exception", "ValueError", "ValidationError", "KeyError", "FileNotFoundError",
     "JSONDecodeError", "JIRAError"}

\* "except ValueError" in place of "except Exception".
CaughtOnlyValueError(type) == type \in {"ValueError", "ValidationError"}

CaughtByCallTool(type) == type \in ExceptionClasses

ToolNames == {ToolName[n] : n \in DOMAIN ToolName}

\* The message returned as the answer instead of raised.
UnknownToolReturned(name, client, count) ==
    Effect(client, count, <<>>, <<>>,
           Return(<<TextContent(CallToolText.unknown_tool \o name)>>))

\* "if not handler: raise ValueError(...)"
UnknownTool(name, client, count) ==
    Effect(client, count, <<>>, <<>>,
           Raise("ValueError", CallToolText.unknown_tool \o name))

\* handlers.get(name) and the call of the handler; an unknown name raises.
Handle(name, args, client, count, tm, file, outcome, remote) ==
    IF name = ToolName.get_issue_templates
    THEN Effect(client, count, <<>>, <<>>, _get_issue_templates(tm, args))
    ELSE IF name = ToolName.create_jira_issue
    THEN _create_jira_issue(args, client, count, file, outcome, remote)
    ELSE IF name = ToolName.get_jira_projects
    THEN _get_jira_projects(args, client, count, file, outcome, remote)
    ELSE IF name = ToolName.search_jira_issues
    THEN _search_jira_issues(args, client, count, file, outcome, remote)
    ELSE IF name = ToolName.get_jira_issue
    THEN _get_jira_issue(args, client, count, file, outcome, remote)
    ELSE IF name = ToolName.get_project_metadata
    THEN _get_project_metadata(args, client, count, file, outcome, remote)
    ELSE UnknownTool(name, client, count)

\* call_tool(name, arguments): what it returns for a handler's result.
Respond(result) ==
    IF ~result.raised THEN result.value
    ELSE IF CaughtByCallTool(result.type)
    THEN <<TextContent(CallToolText.error \o result.msg)>>
    ELSE <<>>

\* The whole of call_tool for a call whose handler has the given effect.
Answer(name, args, effect) ==
    /\ request' = Some([name |-> name, arguments |-> args])
    /\ jira_client' = effect.client
    /\ connections' = effect.connections
    /\ connects' = effect.connects
    /\ remote_calls' = effect.calls
    /\ response' = Respond(effect.result)
    /\ raised' = (effect.result.raised /\ ~CaughtByCallTool(effect.result.type))
    /\ logged' = IF effect.result.raised /\ CaughtByCallTool(effect.result.type)
                 THEN Some([type |-> effect.result.type, msg |-> effect.result.msg])
                 ELSE None
    /\ UNCHANGED <<template_dir, template_manager, config_file, lookup, cli, loop>>

call_tool(name, args, outcome, remote) ==
    \E effect \in {Handle(name, args, jira_client, connections, template_manager,
                          config_file, outcome, remote)} :
        Answer(name, args, effect)

\* What the world can do to a tool call whose remote calls can go as remotes
\* say: JIRA(...) fails (only a call that finds no client connects), or it
\* connects and the remote calls go one of those ways.
Worlds(remotes) ==
    {[outcome |-> Connected, remote |-> r] : r \in remotes}
        \cup (IF IsNone(jira_client)
              THEN {[outcome |-> o, remote |-> NoRemote] :
                       o \in ConnectOutcomes \ {Connected}}
              ELSE {})

CallGetIssueTemplates ==
    \E args \in TemplatesArgs, world \in Worlds({NoRemote}) :
        call_tool(ToolName.get_issue_templates, args, world.outcome, world.remote)

CallCreateJiraIssue ==
    \E args \in CreateArgs,
       world \in Worlds(RemoteOutcomes({[key |-> Remote.key1]}, 1)) :
        call_tool(ToolName.create_jira_issue, args, world.outcome, world.remote)

CallGetJiraProjects ==
    \E world \in Worlds(RemoteOutcomes(
           {<<>>, <<RemoteProject(Given.project), RemoteProject(Given.other)>>}, 1)) :
        call_tool(ToolName.get_jira_projects, <<>>, world.outcome, world.remote)

CallSearchJiraIssues ==
    \E args \in SearchArgs,
       world \in Worlds(RemoteOutcomes(
           {<<>>} \cup {<<i>> : i \in RemoteIssues} \cup Orders(RemoteIssues), 1)) :
        call_tool(ToolName.search_jira_issues, args, world.outcome, world.remote)

CallGetJiraIssue ==
    \E args \in IssueArgs, world \in Worlds(RemoteOutcomes(RemoteIssues, 1)) :
        call_tool(ToolName.get_jira_issue, args, world.outcome, world.remote)

CallGetProjectMetadata ==
    \E args \in MetadataArgs :
        \E world \in Worlds(RemoteOutcomes(
               {[project |-> RemoteProject(Str(args.project_key)),
                 priorities |-> <<Remote.high, Remote.low>>,
                 issue_types |-> <<Remote.bug, Remote.task>>]}, 3)) :
            call_tool(ToolName.get_project_metadata, args, world.outcome, world.remote)

CallUnknownTool ==
    \E name \in UnknownNames, world \in Worlds({NoRemote}) :
        call_tool(name, <<>>, world.outcome, world.remote)

Init ==
    /\ template_dir \in ServerTemplateDirs
    /\ template_manager = TemplateManager(template_dir)
    /\ config_file \in ConfigFiles
    /\ jira_client = None
    /\ connections = 0
    /\ request = None
    /\ connects = <<>>
    /\ remote_calls = <<>>
    /\ response = <<>>
    /\ raised = FALSE
    /\ logged = None
    /\ lookup = None
    /\ cli = NoLauncher
    /\ loop = NoTasks

Next ==
    \/ CallGetIssueTemplates
    \/ CallCreateJiraIssue
    \/ CallGetJiraProjects
    \/ CallSearchJiraIssues
    \/ CallGetJiraIssue
    \/ CallGetProjectMetadata
    \/ CallUnknownTool

Spec == Init /\ [][Next]_vars

-----------------------------------------------------------------------------
(* cli.py: the launcher.  The process is the record cli: its position pc,   *)
(* the parsed arguments, the directories of ~/.jissue that exist, the       *)
(* working directory, what it printed, the subprocesses it ran, and its     *)
(* exit status once it has ended.                                           *)

CliText ==
    [ setup |-> <<"J","I","S","S","U","E"," ","S","E","T","U","P"," ","I","N","S","T","R","U",
        "C","T","I","O","N","S">>,
      not_found |-> <<"U+26A0","U+FE0F"," "," ","C","o","n","f",
          "i","g","u","r","a","t","i","o","n"," ","f","i","l","e"," ","n","o","t"," ","f","o",
              "u","n","d",":"," ","/","h","o","m","e","/","u","s","e","r","/",".","j","i","s",
                  "s","u","e","/","c","o","n","f","i","g",".","j","s","o","n">>,
      create |-> <<"\n","P","l","e","a","s","e"," ","c","r","e","a","t","e"," ","~","/",".","j",
          "i","s","s","u","e","/","c","o","n","f","i","g",".","j","s","o","n"," ","w","i","t",
              "h"," ","t","h","e"," ","f","o","l","l","o","w","i","n","g"," ","s","t","r","u",
                  "c","t","u","r","e",":">>,
      datacenter |-> <<"\n","F","o","r"," ","J","i","r","a"," ","D","a","t","a"," ","C","e","n",
          "t","e","r",","," ","u","s","e",":">>,
      no_claude |-> <<"U+26A0","U+FE0F"," "," ","C","l","a","u",
          "d","e"," ","C","o","d","e"," ","n","o","t"," ","f","o","u","n","d"," ","i","n"," ",
              "P","A","T","H",".">>,
      install |-> <<"\n","P","l","e","a","s","e"," ","i","n","s","t","a","l","l"," ","C","l",
          "a","u","d","e"," ","C","o","d","e"," ","f","i","r","s","t",":">>,
      url |-> <<"h","t","t","p","s",":","/","/","g","i","t","h","u","b",".","c","o","m","/","a",
          "n","t","h","r","o","p","i","c","s","/","c","l","a","u","d","e","-","c","o","d","e">>,
      launching |-> <<"U+1F680"," ","L","a","u","n","c","h","i","n","g"," ",
          "C","l","a","u","d","e"," ","C","o","d","e"," ","w","i","t","h"," ","J","i","s","s",
              "u","e"," ","M","C","P"," ","s","e","r","v","e","r",".",".",".">>,
      initial |-> <<"\n","I","n","i","t","i","a","l"," ","p","r","o","m","p","t",":","\n">>,
      nl |-> <<"\n">>,
      dash |-> <<"-">>,
      goodbye |-> <<"\n","\n","G","o","o","d","b","y","e","!">>,
      space |-> <<" ">>,
      fallback |-> <<"P","R","O","J">> ]

\* The two dicts ensure_config_exists() prints through json.dumps.
ExampleConfig ==
    [ cloud |->
          [ jira_url |-> <<"h","t","t","p","s",":","/","/","y","o","u","r","-","d","o","m","a",
              "i","n",".","a","t","l","a","s","s","i","a","n",".","n","e","t">>,
            email |-> <<"y","o","u","r","-","e","m","a","i","l","@","e","x","a","m","p","l","e",
                ".","c","o","m">>,
            api_token |-> <<"y","o","u","r","-","a","p","i","-","t","o","k","e","n">>,
            default_project |-> <<"P","R","O","J">> ],
      datacenter |->
          [ jira_url |-> <<"h","t","t","p","s",":","/","/","j","i","r","a",".","y","o","u","r",
              "-","c","o","m","p","a","n","y",".","c","o","m">>,
            username |-> <<"y","o","u","r","-","u","s","e","r","n","a","m","e">>,
            password |-> <<"y","o","u","r","-","p","a","s","s","w","o","r","d","-","o","r","-",
                "t","o","k","e","n">>,
            default_project |-> <<"P","R","O","J">> ] ]

PromptText ==
    [ intro |-> <<"I"," ","n","e","e","d"," ","t","o"," ","c","r","e","a","t","e"," ","a"," ",
        "J","i","r","a"," ","i","s","s","u","e"," ","i","n"," ","p","r","o","j","e","c","t"," ">>,
      dot |-> <<".">>,
      here |-> <<"\n","H","e","r","e","'","s"," ","w","h","a","t"," ","I"," ","w","a","n","t",
          " ","t","o"," ","c","r","e","a","t","e",":","\n">>,
      ask |-> <<"\n","P","l","e","a","s","e"," ","a","s","k"," ","m","e"," ","w","h","a","t",
          " ","I"," ","w","a","n","t"," ","t","o"," ","c","r","e","a","t","e",".">>,
      help |-> <<"\n","P","l","e","a","s","e"," ","h","e","l","p"," ","m","e"," ","b","y",":">>,
      step1 |-> <<"1","."," ","F","i","r","s","t",","," ","g","e","t"," ","t","h","e"," ","p",
          "r","o","j","e","c","t"," ","m","e","t","a","d","a","t","a"," ","t","o"," ","s","e",
              "e"," ","a","v","a","i","l","a","b","l","e"," ","p","r","i","o","r","i","t","i",
                  "e","s"," ","a","n","d"," ","i","s","s","u","e"," ","t","y","p","e","s">>,
      step2 |-> <<"2","."," ","A","n","a","l","y","z","e"," ","m","y"," ","d","e","s","c","r",
          "i","p","t","i","o","n"," ","a","n","d"," ","d","e","t","e","r","m","i","n","e"," ",
              "t","h","e"," ","a","p","p","r","o","p","r","i","a","t","e"," ","i","s","s","u",
                  "e"," ","t","y","p","e"," ","(","b","u","g","/","s","t","o","r","y","/","t",
                      "a","s","k","/","s","p","i","k","e","/","e","t","c",")">>,
      step3 |-> <<"3","."," ","S","u","g","g","e","s","t"," ","a","n"," ","a","p","p","r","o",
          "p","r","i","a","t","e"," ","p","r","i","o","r","i","t","y"," ","b","a","s","e","d",
              " ","o","n"," ","t","h","e"," ","s","e","v","e","r","i","t","y","/","i","m","p",
                  "o","r","t","a","n","c","e">>,
      step4 |-> <<"4","."," ","S","e","a","r","c","h"," ","f","o","r"," ","s","i","m","i","l",
          "a","r"," ","e","x","i","s","t","i","n","g"," ","i","s","s","u","e","s"," ","t","o",
              " ","a","v","o","i","d"," ","d","u","p","l","i","c","a","t","e","s",":">>,
      step4a |-> <<" "," "," ","-"," ","E","x","t","r","a","c","t"," ","k","e","y"," ","c","o",
          "n","c","e","p","t","s"," ","a","n","d"," ","s","e","a","r","c","h"," ","t","e","r",
              "m","s"," ","f","r","o","m"," ","m","y"," ","d","e","s","c","r","i","p","t","i",
                  "o","n">>,
      step4b |-> <<" "," "," ","-"," ","S","e","a","r","c","h"," ","u","s","i","n","g"," ","d",
          "i","f","f","e","r","e","n","t"," ","c","o","m","b","i","n","a","t","i","o","n","s",
              " ","o","f"," ","k","e","y","w","o","r","d","s">>,
      step4c |-> <<" "," "," ","-"," ","L","o","o","k"," ","f","o","r"," ","s","e","m","a","n",
          "t","i","c"," ","s","i","m","i","l","a","r","i","t","y",","," ","n","o","t"," ","j",
              "u","s","t"," ","e","x","a","c","t"," ","p","h","r","a","s","e"," ","m","a","t",
                  "c","h","e","s">>,
      step4d |-> <<" "," "," ","-"," ","T","e","l","l"," ","m","e"," ","i","f"," ","y","o","u",
          " ","f","i","n","d"," ","p","o","t","e","n","t","i","a","l","l","y"," ","d","u","p",
              "l","i","c","a","t","e"," ","i","s","s","u","e","s">>,
      step5 |-> <<"5","."," ","U","s","e"," ","t","h","e"," ","a","p","p","r","o","p","r","i",
          "a","t","e"," ","t","e","m","p","l","a","t","e"," ","t","o"," ","f","o","r","m","a",
              "t"," ","t","h","e"," ","i","s","s","u","e">>,
      step6 |-> <<"6","."," ","S","h","o","w"," ","m","e"," ","t","h","e"," ","p","r","o","p",
          "o","s","e","d"," ","i","s","s","u","e"," ","(","s","u","m","m","a","r","y",","," ",
              "d","e","s","c","r","i","p","t","i","o","n",","," ","t","y","p","e",","," ","p",
                  "r","i","o","r","i","t","y",")">>,
      step7 |-> <<"7","."," ","A","f","t","e","r"," ","I"," ","a","p","p","r","o","v","e",",",
          " ","c","r","e","a","t","e"," ","t","h","e"," ","i","s","s","u","e"," ","i","n"," ",
              "J","i","r","a">> ]

\* print(text) and print(json.dumps(d, indent=2)): one printed item each.
Printed(text) == [text |-> text, json |-> None]

PrintedJson(d) == [text |-> <<>>, json |-> Some(d)]

\* sys.exit(status), and an exception nothing catches (status 1).
Exit(c, status) == [c EXCEPT !.pc = "exited", !.exit_status = Some(status)]

Uncaught(c, type) == [Exit(c, 1) EXCEPT !.error = Some(type)]

show_setup_instructions(c) == [c EXCEPT !.printed = @ \o <<Printed(CliText.setup)>>]

\* main() down to the join of the text arguments.
main(c) ==
    IF c.args.setup THEN Exit(show_setup_instructions(c), 0)
    ELSE [c EXCEPT !.pc = "ensure_config",
                   !.text = IF c.args.text # <<>>
                            THEN Some(Join(CliText.space, c.args.text))
                            ELSE None]

\* ensure_config_exists() without its sys.exit(1).
ensure_config_exists_returning(c, file) ==
    [c EXCEPT !.pc = "build_prompt",
              !.mkdirs = @ \o <<"~/.jissue", "~/.jissue/templates">>,
              !.dirs = @ \cup {"~/.jissue", "~/.jissue/templates"},
              !.printed = IF file.exists THEN @
                          ELSE @ \o <<Printed(CliText.not_found), Printed(CliText.create),
                                      PrintedJson(ExampleConfig.cloud),
                                      Printed(CliText.datacenter),
                                      PrintedJson(ExampleConfig.datacenter)>>]

\* ensure_config_exists(): file is ~/.jissue/config.json.
ensure_config_exists(c, file) ==
    IF file.exists
    THEN [c EXCEPT !.pc = "build_prompt",
                   !.mkdirs = @ \o <<"~/.jissue", "~/.jissue/templates">>,
                   !.dirs = @ \cup {"~/.jissue", "~/.jissue/templates"}]
    ELSE Exit([c EXCEPT !.mkdirs = @ \o <<"~/.jissue", "~/.jissue/templates">>,
                        !.dirs = @ \cup {"~/.jissue", "~/.jissue/templates"},
                        !.printed = @ \o <<Printed(CliText.not_found),
                                           Printed(CliText.create),
                                           PrintedJson(ExampleConfig.cloud),
                                           Printed(CliText.datacenter),
                                           PrintedJson(ExampleConfig.datacenter)>>],
              1)

\* The parts build_initial_prompt() joins: project is the key it resolved,
\* text the joined text argument or None.
PromptParts(project, text) ==
    <<PromptText.intro \o project \o PromptText.dot,
      IF Truthy(text) THEN PromptText.here \o text[1] ELSE PromptText.ask,
      PromptText.help, PromptText.step1, PromptText.step2, PromptText.step3,
      PromptText.step4, PromptText.step4a, PromptText.step4b, PromptText.step4c,
      PromptText.step4d, PromptText.step5, PromptText.step6, PromptText.step7>>

\* default_project as build_initial_prompt() reads it from the file.
DefaultProject(file) ==
    IF file.exists THEN GetOr(file.data, "default_project", CliText.fallback)
    ELSE CliText.fallback

\* The project argument ignored: the configured default is always used.
ResolvedProjectFromConfig(args, file) == DefaultProject(file)

\* "args.project if ... args.project else default_project".
ResolvedProject(args, file) ==
    IF Truthy(args.project) THEN args.project[1] ELSE DefaultProject(file)

\* build_initial_prompt(args): the prompt, or the exception json.load raises.
\* args.text is the joined text main() left there.
build_initial_prompt(args, file) ==
    IF file.exists /\ ~file.valid THEN Raise("JSONDecodeError", <<>>)
    ELSE Return(Join(CliText.nl, PromptParts(ResolvedProject(args, file), args.text)))

BuildPrompt(c, built) ==
    IF built.raised THEN Uncaught([c EXCEPT !.read_config = TRUE], built.type)
    ELSE [c EXCEPT !.pc = "which", !.read_config = TRUE, !.prompt = Some(built.value)]

\* launch_claude_code() down to the prints: found is whether "which claude"
\* succeeds.
FindClaude(c, found) ==
    IF found
    THEN [c EXCEPT !.pc = "chdir",
                   !.runs = @ \o <<[argv |-> <<"which", "claude">>, cwd |-> c.cwd]>>,
                   !.printed = @ \o <<Printed(CliText.launching),
                                      Printed(CliText.initial \o c.prompt[1] \o CliText.nl),
                                      Printed([i \in 1..60 |-> CliText.dash[1]]),
                                      Printed(<<>>)>>]
    ELSE Exit([c EXCEPT !.runs = @ \o <<[argv |-> <<"which", "claude">>, cwd |-> c.cwd]>>,
                        !.printed = @ \o <<Printed(CliText.no_claude),
                                           Printed(CliText.install),
                                           Printed(CliText.url)>>],
              1)

\* original_dir = Path.cwd(); os.chdir(jissue_dir).
ChangeDir(c) == [c EXCEPT !.pc = "session", !.original_dir = c.cwd, !.cwd = "jissue"]

\* subprocess.run(["claude", initial_prompt], check=False) and the except
\* clause.  ending is how the call ends: the program returned (with a status),
\* the user interrupted it, or it could not be started.
RunClaude(c, ending) ==
    IF ending.how = "returned"
    THEN [c EXCEPT !.pc = "finally",
                   !.runs = @ \o <<[argv |-> <<"claude", c.prompt[1]>>, cwd |-> c.cwd]>>,
                   !.session = Some(ending)]
    ELSE IF ending.how = "interrupted"
    THEN [c EXCEPT !.pc = "finally",
                   !.runs = @ \o <<[argv |-> <<"claude", c.prompt[1]>>, cwd |-> c.cwd]>>,
                   !.session = Some(ending),
                   !.printed = @ \o <<Printed(CliText.goodbye)>>]
    ELSE [c EXCEPT !.pc = "finally", !.session = Some(ending),
                   !.error = Some("FileNotFoundError")]

\* The finally clause that leaves the working directory where it is.
Finally_without_chdir(c) == Exit([c EXCEPT !.error = None], 0)

\* The finally clause: os.chdir(original_dir); sys.exit(0).  The SystemExit
\* it raises replaces an exception that was on its way out.
Finally(c) == Exit([c EXCEPT !.cwd = c.original_dir, !.error = None], 0)

\* The command lines tried, as parse_args() yields them.
CliGiven ==
    [ project |-> <<"M","Y","P","R","O","J","E","C","T">>,
      login |-> <<"L","o","g","i","n">>,
      fails |-> <<"f","a","i","l","s">>,
      empty |-> <<>> ]

CliArgs ==
    [setup : BOOLEAN,
     project : Opt({CliGiven.empty, CliGiven.project}),
     text : {<<>>, <<CliGiven.empty>>, <<CliGiven.login, CliGiven.fails>>}]

\* ~/.jissue/config.json: missing, not JSON, with and without default_project.
CliConfigFiles ==
    {NoFile, [exists |-> TRUE, valid |-> FALSE, data |-> <<>>]}
        \cup {[exists |-> TRUE, valid |-> TRUE, data |-> [k \in K |-> ConfigValue[k]]] :
                 K \in {{"jira_url", "default_project", "token"}, {"jira_url", "token"}}}

\* How the session with the external program can end.
SessionEndings ==
    {[how |-> "returned", status |-> s] : s \in {0, 1, 130}}
        \cup {[how |-> "interrupted", status |-> 0], [how |-> "failed", status |-> 0]}

\* The process as main() finds it after parse_args().
Launcher(args, dirs) ==
    [ pc |-> "main", args |-> args, text |-> None, dirs |-> dirs, mkdirs |-> <<>>,
      cwd |-> "original", original_dir |-> "", printed |-> <<>>, runs |-> <<>>,
      read_config |-> FALSE, prompt |-> None, session |-> None, error |-> None,
      exit_status |-> None ]

InitCli ==
    /\ template_dir \in ServerTemplateDirs
    /\ template_manager = TemplateManager(template_dir)
    /\ config_file \in CliConfigFiles
    /\ jira_client = None
    /\ connections = 0
    /\ request = None
    /\ connects = <<>>
    /\ remote_calls = <<>>
    /\ response = <<>>
    /\ raised = FALSE
    /\ logged = None
    /\ lookup = None
    /\ cli \in {Launcher(a, d) : a \in CliArgs,
                                 d \in {{}, {"~/.jissue"}, {"~/.jissue", "~/.jissue/templates"}}}
    /\ loop = NoTasks

UnchangedByCli ==
    UNCHANGED <<template_dir, template_manager, config_file, jira_client, connections,
                request, connects, remote_calls, response, raised, logged, lookup, loop>>

Main ==
    /\ cli.pc = "main"
    /\ cli' = main(cli)
    /\ UnchangedByCli

EnsureConfigExists ==
    /\ cli.pc = "ensure_config"
    /\ cli' = ensure_config_exists(cli, config_file)
    /\ UnchangedByCli

BuildInitialPrompt ==
    /\ cli.pc = "build_prompt"
    /\ cli' = BuildPrompt(cli, build_initial_prompt(
                                [project |-> cli.args.project, text |-> cli.text],
                                config_file))
    /\ UnchangedByCli

WhichClaude ==
    /\ cli.pc = "which"
    /\ \E found \in BOOLEAN : cli' = FindClaude(cli, found)
    /\ UnchangedByCli

ChangeDirectory ==
    /\ cli.pc = "chdir"
    /\ cli' = ChangeDir(cli)
    /\ UnchangedByCli

RunSession ==
    /\ cli.pc = "session"
    /\ \E ending \in SessionEndings : cli' = RunClaude(cli, ending)
    /\ UnchangedByCli

RestoreAndExit ==
    /\ cli.pc = "finally"
    /\ cli' = Finally(cli)
    /\ UnchangedByCli

NextCli ==
    \/ Main
    \/ EnsureConfigExists
    \/ BuildInitialPrompt
    \/ WhichClaude
    \/ ChangeDirectory
    \/ RunSession
    \/ RestoreAndExit

SpecCli == InitCli /\ [][NextCli]_vars

-----------------------------------------------------------------------------

(* server.py on its event loop.  The protocol driver may hand call_tool a   *)
(* new call at any time; each call is a task of the loop, which runs one    *)
(* task at a time and changes task only where the running one suspends.     *)
(* loop is [tasks, running]: each task's tool name and position, and the    *)
(* task that holds the loop (0 when none does).                             *)

\* The handlers awaiting their blocking calls: a task would give the loop up
\* before constructing the client and while its remote call is out.
SuspendsWhileWaiting(pc) == pc \in {"construct", "in_call"}

\* A task gives up the loop only where it awaits something that is not ready.
\* The one await of call_tool is on the handler coroutine, which runs in the
\* same task; no handler awaits, and the Jira calls are blocking calls.
Suspends(pc) == FALSE

\* The tools whose calls are tried: two that use the adapter and one that
\* does not.
LoopTools ==
    {ToolName.get_jira_projects, ToolName.get_jira_issue, ToolName.get_issue_templates}

\* ~/.jissue/config.json while the server runs.
LoopConfigFiles ==
    {NoFile,
     [exists |-> TRUE, valid |-> TRUE,
      data |-> [k \in {"jira_url", "default_project", "token"} |-> ConfigValue[k]]]}

Task(name) == [name |-> name, pc |-> "ready", made |-> FALSE]

\* Task i is left as task; it keeps the loop unless it ended or suspends.
Advance(l, i, task) ==
    [l EXCEPT !.tasks[i] = task,
              !.running = IF task.pc = "done" \/ Suspends(task.pc) THEN 0 ELSE i]

\* The loop can run task i where it stands at pc.
Runs(i, pc) ==
    /\ i \in DOMAIN loop.tasks
    /\ loop.running \in {0, i}
    /\ loop.tasks[i].pc = pc

InitLoop ==
    /\ template_dir \in ServerTemplateDirs
    /\ template_manager = TemplateManager(template_dir)
    /\ config_file \in LoopConfigFiles
    /\ jira_client = None
    /\ connections = 0
    /\ request = None
    /\ connects = <<>>
    /\ remote_calls = <<>>
    /\ response = <<>>
    /\ raised = FALSE
    /\ logged = None
    /\ lookup = None
    /\ cli = NoLauncher
    /\ loop = [tasks |-> <<>>, running |-> 0]

UnchangedByLoop ==
    UNCHANGED <<template_dir, template_manager, config_file, request, connects,
                remote_calls, response, raised, logged, lookup, cli>>

\* The driver creates a task for a call that arrived.
Arrive ==
    /\ Len(loop.tasks) < MaxTasks
    /\ \E name \in LoopTools : loop' = [loop EXCEPT !.tasks = Append(@, Task(name))]
    /\ UNCHANGED <<jira_client, connections>>
    /\ UnchangedByLoop

\* call_tool looks the handler up and calls it.
Dispatch ==
    /\ \E i \in DOMAIN loop.tasks :
           /\ Runs(i, "ready")
           /\ loop' = Advance(loop, i,
                          [loop.tasks[i] EXCEPT
                               !.pc = IF loop.tasks[i].name = ToolName.get_issue_templates
                                      THEN "format" ELSE "check"])
    /\ UNCHANGED <<jira_client, connections>>
    /\ UnchangedByLoop

\* "if self.jira_client is None".
CheckClient ==
    /\ \E i \in DOMAIN loop.tasks :
           /\ Runs(i, "check")
           /\ loop' = Advance(loop, i,
                          [loop.tasks[i] EXCEPT
                               !.pc = IF IsNone(jira_client) THEN "construct" ELSE "call"])
    /\ UNCHANGED <<jira_client, connections>>
    /\ UnchangedByLoop

\* "self.jira_client = JiraClientWrapper()".
ConstructClient ==
    /\ \E i \in DOMAIN loop.tasks, outcome \in ConnectOutcomes :
           /\ Runs(i, "construct")
           /\ \E made \in {Assign(jira_client, connections,
                                  IF connections < MaxConnections
                                  THEN connections + 1 ELSE connections,
                                  JiraClientWrapper(config_file,
                                      IF connections < MaxConnections
                                      THEN connections + 1 ELSE connections,
                                      outcome))} :
                  /\ jira_client' = made.client
                  /\ connections' = made.connections
                  /\ loop' = Advance(loop, i,
                                 [loop.tasks[i] EXCEPT
                                      !.pc = IF made.result.raised THEN "done" ELSE "call",
                                      !.made = ~made.result.raised])
    /\ UnchangedByLoop

\* The handler calls the adapter, which sends the request to the remote.
SendRemoteCall ==
    /\ \E i \in DOMAIN loop.tasks :
           /\ Runs(i, "call")
           /\ loop' = Advance(loop, i, [loop.tasks[i] EXCEPT !.pc = "in_call"])
    /\ UNCHANGED <<jira_client, connections>>
    /\ UnchangedByLoop

\* The remote answers or the call raises; either way the adapter returns.
RemoteCallEnds ==
    /\ \E i \in DOMAIN loop.tasks :
           /\ Runs(i, "in_call")
           /\ loop' = Advance(loop, i, [loop.tasks[i] EXCEPT !.pc = "format"])
    /\ UNCHANGED <<jira_client, connections>>
    /\ UnchangedByLoop

\* The handler formats its text and call_tool returns it.
ReturnResponse ==
    /\ \E i \in DOMAIN loop.tasks :
           /\ Runs(i, "format")
           /\ loop' = Advance(loop, i, [loop.tasks[i] EXCEPT !.pc = "done"])
    /\ UNCHANGED <<jira_client, connections>>
    /\ UnchangedByLoop

NextLoop ==
    \/ Arrive
    \/ Dispatch
    \/ CheckClient
    \/ ConstructClient
    \/ SendRemoteCall
    \/ RemoteCallEnds
    \/ ReturnResponse

SpecLoop == InitLoop /\ [][NextLoop]_vars

-----------------------------------------------------------------------------

(* The claims.  The texts they expect are spelled out here, apart from the *)
(* model's.                                                                *)

\* The tool call that was just answered.
Called(name) == request # None /\ request[1].name = name

Arguments == request[1].arguments

AdapterTools ==
    {ToolName.create_jira_issue, ToolName.get_jira_projects, ToolName.search_jira_issues,
     ToolName.get_jira_issue, ToolName.get_project_metadata}

TextBlock(text) == [type |-> "text", text |-> text]

\* The remote call that raised during this tool call, if one did.
RemoteFailed == remote_calls # <<>> /\ remote_calls[Len(remote_calls)].error # None

RemoteCause == remote_calls[Len(remote_calls)].error[1]

C1_Text ==
    [ error |-> <<"E","r","r","o","r",":"," ">> ]

\* C1: call_tool always returns a list of text blocks and never raises: an
\* unknown name, a failed client creation and a failed remote call all end in
\* a caught exception, and a caught exception is answered with the single
\* block "Error: " + str(e).
C1_CallToolNeverRaises ==
    request # None =>
        /\ ~raised
        /\ response # <<>>
        /\ \A i \in DOMAIN response : response[i].type = "text"
        /\ (request[1].name \notin ToolNames \/ RemoteFailed) => logged # None
        /\ (request[1].name \in AdapterTools /\ jira_client = None) => logged # None
        /\ logged # None => response = <<TextBlock(C1_Text.error \o logged[1].msg)>>

\* A client creation that failed for want of a configuration file, answered.
C1_Witness ==
    /\ Called(ToolName.get_jira_projects)
    /\ logged # None
    /\ logged[1].type = "FileNotFoundError"
    /\ response = <<TextBlock(C1_Text.error \o logged[1].msg)>>

C2_Text ==
    [ claimed |-> <<"U","n","k","n","o","w","n"," ","t","o","o","l",":"," ">>,
      answered |->
          <<"E","r","r","o","r",":"," ","U","n","k","n","o","w","n"," ","t","o","o","l",":"," ">> ]

\* C2 as claimed: an unknown tool name is answered with the single block
\* "Unknown tool: {name}".
C2_UnknownToolBare ==
    (request # None /\ request[1].name \notin ToolNames) =>
        /\ ~raised
        /\ response = <<TextBlock(C2_Text.claimed \o request[1].name)>>

\* C2: an unknown tool name is answered with the single block
\* "Error: Unknown tool: {name}", and call_tool does not raise.
C2_UnknownToolError ==
    (request # None /\ request[1].name \notin ToolNames) =>
        /\ ~raised
        /\ response = <<TextBlock(C2_Text.answered \o request[1].name)>>

C2_Witness ==
    /\ Called(UnknownName.foo)
    /\ response = <<TextBlock(C2_Text.answered \o UnknownName.foo)>>

\* C3: the client reference starts unset; once set it is never unset or
\* replaced; it is set only by an adapter tool's call that opened the one
\* connection; a call whose JIRA(...) raised leaves it unset; and every remote
\* call goes over the connection the reference holds.
C3_Step ==
    /\ jira_client # None => jira_client' = jira_client
    /\ jira_client' # jira_client =>
           /\ request'[1].name \in AdapterTools
           /\ Len(connects') = 1
           /\ jira_client'[1].jira.id = 1
    /\ (connects' # <<>> /\ logged' # None /\ logged'[1].type = "JIRAError") =>
           jira_client' = None
    /\ \A i \in DOMAIN remote_calls' :
           jira_client' # None /\ remote_calls'[i].conn = jira_client'[1].jira.id
    /\ connections' <= 1

C3_ClientSetOnce == (jira_client = None) /\ [][C3_Step]_vars

\* A later call that found the client set and made its remote call over it.
C3_Witness ==
    /\ jira_client # None
    /\ connects = <<>>
    /\ remote_calls # <<>>
    /\ remote_calls[1].conn = jira_client[1].jira.id

C4_Text ==
    [ create |->
          <<"E","r","r","o","r",":"," ","F","a","i","l","e","d"," ","t","o"," ","c","r","e","a",
            "t","e"," ","J","i","r","a"," ","i","s","s","u","e",":"," ">>,
      projects |->
          <<"E","r","r","o","r",":"," ","F","a","i","l","e","d"," ","t","o"," ","g","e","t"," ",
            "J","i","r","a"," ","p","r","o","j","e","c","t","s",":"," ">>,
      search |->
          <<"E","r","r","o","r",":"," ","F","a","i","l","e","d"," ","t","o"," ","s","e","a","r",
            "c","h"," ","J","i","r","a"," ","i","s","s","u","e","s",":"," ">>,
      issue |->
          <<"E","r","r","o","r",":"," ","F","a","i","l","e","d"," ","t","o"," ","g","e","t"," ",
            "J","i","r","a"," ","i","s","s","u","e"," ">>,
      colon |-> <<":"," ">>,
      metadata |->
          <<"E","r","r","o","r",":"," ","F","a","i","l","e","d"," ","t","o"," ","g","e","t"," ",
            "p","r","o","j","e","c","t"," ","m","e","t","a","d","a","t","a",":"," ">> ]

\* The answer to a tool call whose remote call raised cause.
C4_Expected(name, args, cause) ==
    IF name = ToolName.create_jira_issue THEN C4_Text.create \o cause
    ELSE IF name = ToolName.get_jira_projects THEN C4_Text.projects \o cause
    ELSE IF name = ToolName.search_jira_issues THEN C4_Text.search \o cause
    ELSE IF name = ToolName.get_jira_issue
    THEN C4_Text.issue \o args.issue_key[1] \o C4_Text.colon \o cause
    ELSE C4_Text.metadata \o cause

\* C4: when a remote call of an adapter operation raises cause, the tool call is
\* answered with the single block "Error: " + the operation's prefix + cause.
C4_RemoteFailureText ==
    RemoteFailed =>
        response = <<TextBlock(C4_Expected(request[1].name, Arguments, RemoteCause))>>

\* A search whose remote search timed out.
C4_Witness ==
    /\ Called(ToolName.search_jira_issues)
    /\ RemoteFailed
    /\ RemoteCause = Cause.timeout
    /\ response = <<TextBlock(C4_Text.search \o Cause.timeout)>>

\* C5: no tool call takes the server out of service: every call is answered
\* and returns, after a failed call every tool can still be called, and a
\* remote call that fails on a client set by an earlier call (this call opened
\* no connection) leaves that client set, the connection count at one and the
\* template store as it was built.
C5_ServerKeepsServing ==
    request # None =>
        /\ ~raised
        /\ response # <<>>
        /\ logged # None =>
               /\ ENABLED CallGetIssueTemplates
               /\ ENABLED CallCreateJiraIssue
               /\ ENABLED CallGetJiraProjects
               /\ ENABLED CallSearchJiraIssues
               /\ ENABLED CallGetJiraIssue
               /\ ENABLED CallGetProjectMetadata
               /\ ENABLED CallUnknownTool
        /\ (RemoteFailed /\ connects = <<>>) =>
               /\ jira_client # None
               /\ jira_client[1].jira.id = remote_calls[Len(remote_calls)].conn
               /\ connections = 1
               /\ template_manager = TemplateManager(template_dir)

\* A remote call that failed on a client set by an earlier call.
C5_Witness ==
    /\ jira_client # None
    /\ connects = <<>>
    /\ RemoteFailed
    /\ logged # None
    /\ ~raised

\* The built-in issue types that exactly one file of the (fully readable)
\* custom directory overrides, the file's name compared ignoring case.
C6_Overrides(T) ==
    {i \in DOMAIN template_dir.files : Lower(template_dir.files[i].stem) = T}

C6_Overridden ==
    {d \in DOMAIN _get_default_templates :
        /\ template_dir.exists
        /\ \A i \in DOMAIN template_dir.files : template_dir.files[i].readable
        /\ Cardinality(C6_Overrides(_get_default_templates[d][1])) = 1}

C6_Override(T) == template_dir.files[CHOOSE i \in C6_Overrides(T) : TRUE]

\* C6: for every issue type T with a built-in template and one override file
\* whose base name equals T ignoring case, get_template with any casing of T
\* returns the file's content, never the built-in, and list_templates names
\* that issue type exactly once.
C6_OverrideAlwaysShadows ==
    \A d \in C6_Overridden :
        LET T == _get_default_templates[d][1]
        IN lookup # None =>
            /\ (lookup[1].op = "get_template" /\ Lower(lookup[1].arg[1]) = T) =>
                   /\ lookup[1].result = Some(C6_Override(T).text)
                   /\ lookup[1].result # Some(_get_default_templates[d][2])
            /\ lookup[1].op = "list_templates" =>
                   Cardinality({k \in DOMAIN lookup[1].result :
                                    Lower(lookup[1].result[k]) = T}) = 1

\* The issue-type name in the payload of the create_issue remote call.
C7_Sent == remote_calls[1].args.fields.issuetype.name

C7_Created == Called(ToolName.create_jira_issue) /\ remote_calls # <<>>

C7_Table ==
    << <<<<"s","t","o","r","y">>, <<"S","t","o","r","y">>>>,
       <<<<"b","u","g">>, <<"B","u","g">>>>,
       <<<<"t","a","s","k">>, <<"T","a","s","k">>>>,
       <<<<"s","p","i","k","e">>, <<"S","p","i","k","e">>>>,
       <<<<"e","p","i","c">>, <<"E","p","i","c">>>>,
       <<<<"s","u","b","t","a","s","k">>, <<"S","u","b","-","t","a","s","k">>>> >>

\* What each issue type tried is sent as.
C7_Expected ==
    C7_Table \o
    << <<<<"S","u","b","T","a","s","k">>, <<"S","u","b","-","t","a","s","k">>>>,
       <<<<"w","e","i","r","d","T","y","p","e">>, <<"W","e","i","r","d","t","y","p","e">>>> >>

\* C7 as stated: a string of the table is sent as its mapped name, and every
\* other string is sent capitalized.
C7_MappedOrCapitalized ==
    C7_Created =>
        LET t == Arguments.issue_type[1]
        IN IF \E i \in DOMAIN C7_Table : C7_Table[i][1] = t
           THEN \E i \in DOMAIN C7_Table : C7_Table[i][1] = t /\ C7_Sent = C7_Table[i][2]
           ELSE C7_Sent = Capitalize(t)

\* C7 as the code has it: a string whose lowercase form is in the table is
\* sent as the mapped name of that form (so "SubTask" is sent as "Sub-task"),
\* and every other string is sent capitalized ("weirdType" as "Weirdtype").
C7_MappedByLowercase ==
    C7_Created =>
        LET t == Arguments.issue_type[1]
        IN /\ IF \E i \in DOMAIN C7_Table : C7_Table[i][1] = Lower(t)
              THEN \E i \in DOMAIN C7_Table :
                       C7_Table[i][1] = Lower(t) /\ C7_Sent = C7_Table[i][2]
              ELSE C7_Sent = Capitalize(t)
           /\ \A i \in DOMAIN C7_Expected :
                  C7_Expected[i][1] = t => C7_Sent = C7_Expected[i][2]

C7_Witness ==
    /\ C7_Created
    /\ Arguments.issue_type = Some(IssueTypeGiven.SubTask)
    /\ C7_Sent = <<"S","u","b","-","t","a","s","k">>

C8_Text ==
    [ open |-> <<"(","s","u","m","m","a","r","y"," ","~"," ","\"">>,
      mid |-> <<"\""," ","O","R"," ","d","e","s","c","r","i","p","t","i","o","n"," ","~"," ",
          "\"">>,
      close |-> <<"\"",")">>,
      project |-> <<"p","r","o","j","e","c","t"," ","="," ">>,
      and_ |-> <<" ","A","N","D"," ">>,
      order |-> <<"O","R","D","E","R"," ","B","Y"," ","u","p","d","a","t","e","d"," ","D","E",
          "S","C">>,
      login |-> <<"(","s","u","m","m","a","r","y"," ","~"," ","\"","l","o","g","i","n","\""," ",
          "O","R"," ","d","e","s","c","r","i","p","t","i","o","n"," ","~"," ","\"","l","o","g",
              "i","n","\"",")"," ","O","R","D","E","R"," ","B","Y"," ","u","p","d","a","t","e",
                  "d"," ","D","E","S","C">>,
      proj |-> <<"p","r","o","j","e","c","t"," ","="," ","P","R","O","J"," ","O","R","D","E",
          "R"," ","B","Y"," ","u","p","d","a","t","e","d"," ","D","E","S","C">>,
      both |->
          <<"(","s","u","m","m","a","r","y"," ","~"," ","\"","l","o","g","i","n","\""," ","O",
              "R"," ","d","e","s","c","r","i","p","t","i","o","n"," ","~"," ","\"","l","o","g",
                  "i","n","\"",")"," ","A","N","D"," ","p","r","o","j","e","c","t"," ","="," ",
                      "P","R","O","J"," ","O","R","D","E","R"," ","B","Y"," ","u","p","d","a",
                          "t","e","d"," ","D","E","S","C">> ]

C8_Searched == Called(ToolName.search_jira_issues) /\ remote_calls # <<>>

C8_Sent == remote_calls[1].args.jql

C8_HasProject == Arguments.project # None /\ Arguments.project[1] # <<>>

C8_TextClause ==
    C8_Text.open \o Arguments.query[1] \o C8_Text.mid \o Arguments.query[1]
        \o C8_Text.close

C8_ProjectClause == C8_Text.project \o Arguments.project[1]

\* The query sent when the text clause is wanted exactly if has_text.
C8_Query(has_text) ==
    IF has_text /\ ~C8_HasProject THEN C8_TextClause \o <<" ">> \o C8_Text.order
    ELSE IF ~has_text /\ C8_HasProject THEN C8_ProjectClause \o <<" ">> \o C8_Text.order
    ELSE IF has_text /\ C8_HasProject
    THEN C8_TextClause \o C8_Text.and_ \o C8_ProjectClause \o <<" ">> \o C8_Text.order
    ELSE C8_Text.order

\* C8 as stated: the query sent has the text clause exactly if the query text
\* is non-empty, the project clause exactly if a project is given, the two
\* joined by AND, and always ends with the ordering by last update.
C8_QueryByNonEmptyText ==
    C8_Searched => C8_Sent = C8_Query(Arguments.query[1] # <<>>)

\* C8 as the code has it: the text clause is there exactly if the query text
\* has a character that is not whitespace; the rest is as stated.
C8_QueryByNonBlankText ==
    C8_Searched =>
        /\ C8_Sent = C8_Query(\E i \in DOMAIN Arguments.query[1] :
                                  Arguments.query[1][i] \notin Whitespace)
        /\ (Arguments.query[1] = Given.query /\ ~C8_HasProject) => C8_Sent = C8_Text.login
        /\ (Arguments.query[1] \in {Given.empty, Given.blank}
                /\ Arguments.project = Some(Given.project)) => C8_Sent = C8_Text.proj
        /\ (Arguments.query[1] = Given.query /\ Arguments.project = Some(Given.project)) =>
               C8_Sent = C8_Text.both
        /\ (Arguments.query[1] \in {Given.empty, Given.blank} /\ ~C8_HasProject) =>
               C8_Sent = C8_Text.order

C8_Witness ==
    /\ C8_Searched
    /\ Arguments.query = Some(Given.blank)
    /\ Arguments.project = Some(Given.project)
    /\ C8_Sent = C8_Text.proj

C9_Fields == remote_calls[1].args.fields

\* A value was supplied: the argument is there and is not the empty string.
C9_Supplied(o) == o # None /\ o[1] # <<>>

\* C9: the payload of create_issue has priority exactly if a priority was
\* supplied and assignee exactly if an assignee was supplied, each then as
\* {name: value} with the value given, never null or empty; project, summary,
\* description and issue type are always there.
C9_OptionalFieldsOmitted ==
    C7_Created =>
        /\ {"project", "summary", "description", "issuetype"} \subseteq DOMAIN C9_Fields
        /\ DOMAIN C9_Fields \subseteq
               {"project", "summary", "description", "issuetype", "priority", "assignee"}
        /\ C9_Fields.project = [key |-> Arguments.project[1]]
        /\ C9_Fields.summary = Arguments.summary[1]
        /\ C9_Fields.description = Arguments.description[1]
        /\ "priority" \in DOMAIN C9_Fields <=> C9_Supplied(Arguments.priority)
        /\ "assignee" \in DOMAIN C9_Fields <=> C9_Supplied(Arguments.assignee)
        /\ "priority" \in DOMAIN C9_Fields =>
               C9_Fields.priority = [name |-> Arguments.priority[1]]
        /\ "assignee" \in DOMAIN C9_Fields =>
               C9_Fields.assignee = [name |-> Arguments.assignee[1]]

C9_Witness ==
    /\ C7_Created
    /\ Arguments.priority = Some(Given.priority)
    /\ Arguments.assignee = None
    /\ "priority" \in DOMAIN C9_Fields
    /\ "assignee" \notin DOMAIN C9_Fields

C10_Text ==
    [ invalid |->
          <<"E","r","r","o","r",":"," ","I","n","v","a","l","i","d"," ","c","o","n","f","i","g",
              ":"," ","m","u","s","t"," ","h","a","v","e"," ","e","i","t","h","e","r"," ","'",
                  "t","o","k","e","n","'"," ","f","o","r"," ","t","o","k","e","n"," ","a","u",
                      "t","h",","," ","(","e","m","a","i","l",","," ","a","p","i","_","t","o",
                          "k","e","n",")"," ","f","o","r"," ","C","l","o","u","d",","," ","o",
                              "r"," ","(","u","s","e","r","n","a","m","e",","," ","p","a","s",
                                  "s","w","o","r","d",")"," ","f","o","r"," ","D","a","t","a",
                                      " ","C","e","n","t","e","r">> ]

\* The credential shapes present in a configuration.
C10_Shapes(config) ==
    (IF "token" \in DOMAIN config THEN {"token"} ELSE {})
        \cup (IF {"email", "api_token"} \subseteq DOMAIN config THEN {"cloud"} ELSE {})
        \cup (IF {"username", "password"} \subseteq DOMAIN config
              THEN {"datacenter"} ELSE {})

\* C10 as stated: a connection is only ever made from a configuration with
\* exactly one credential shape.
C10_ExactlyOneShape ==
    jira_client # None => Cardinality(C10_Shapes(jira_client[1].config)) = 1

\* C10 as the code has it: a connection is only ever made from a configuration
\* with at least one credential shape, and with the first shape present of
\* token, (email, api_token), (username, password); a configuration with none
\* is answered with the "Invalid config" error and no connection is tried.
C10_FirstShapePresent ==
    /\ jira_client # None =>
           LET c == jira_client[1].config
               a == jira_client[1].jira.args
           IN /\ C10_Shapes(c) # {}
              /\ "token" \in C10_Shapes(c) =>
                     a.auth = "token_auth" /\ a.credentials = <<c.token>>
              /\ ("token" \notin C10_Shapes(c) /\ "cloud" \in C10_Shapes(c)) =>
                     a.auth = "basic_auth" /\ a.credentials = <<c.email, c.api_token>>
              /\ C10_Shapes(c) = {"datacenter"} =>
                     a.auth = "basic_auth" /\ a.credentials = <<c.username, c.password>>
    /\ connects # <<>> => config_file.valid /\ C10_Shapes(config_file.data) # {}
    /\ (/\ request # None
        /\ request[1].name \in AdapterTools
        /\ config_file.valid
        /\ "jira_url" \in DOMAIN config_file.data
        /\ C10_Shapes(config_file.data) = {}) =>
           /\ connects = <<>>
           /\ jira_client = None
           /\ request[1].name # ToolName.create_jira_issue =>
                  response = <<TextBlock(C10_Text.invalid)>>

C10_Witness ==
    /\ Called(ToolName.get_jira_projects)
    /\ connects # <<>>
    /\ jira_client # None
    /\ C10_Shapes(jira_client[1].config) = {"token", "cloud"}
    /\ jira_client[1].jira.args.auth = "token_auth"

C11_Text ==
    [ setup |-> <<"J","I","S","S","U","E"," ","S","E","T","U","P"," ","I","N","S","T","R","U",
        "C","T","I","O","N","S">> ]

C11_Cloud ==
    [ jira_url |-> <<"h","t","t","p","s",":","/","/","y","o","u","r","-","d","o","m","a","i",
        "n",".","a","t","l","a","s","s","i","a","n",".","n","e","t">>,
      email |-> <<"y","o","u","r","-","e","m","a","i","l","@","e","x","a","m","p","l","e",".",
          "c","o","m">>,
      api_token |-> <<"y","o","u","r","-","a","p","i","-","t","o","k","e","n">>,
      default_project |-> <<"P","R","O","J">> ]

C11_DataCenter ==
    [ jira_url |-> <<"h","t","t","p","s",":","/","/","j","i","r","a",".","y","o","u","r","-",
        "c","o","m","p","a","n","y",".","c","o","m">>,
      username |-> <<"y","o","u","r","-","u","s","e","r","n","a","m","e">>,
      password |-> <<"y","o","u","r","-","p","a","s","s","w","o","r","d","-","o","r","-","t",
          "o","k","e","n">>,
      default_project |-> <<"P","R","O","J">> ]

\* The launcher has started, or is about to start, the external program.
C11_Launching ==
    \/ cli.pc \in {"chdir", "session", "finally"}
    \/ \E i \in DOMAIN cli.runs : cli.runs[i].argv[1] = "claude"

C11_NoNetwork == connections = 0 /\ connects = <<>> /\ remote_calls = <<>> /\ jira_client = None

\* C11: the external program is started only on a run without --setup whose
\* configuration file exists.  With --setup the process prints the
\* instructions and exits 0, having made no directory, read no configuration
\* and run nothing.  With the file missing on a normal run it prints the two
\* example configurations and exits non-zero, having run nothing and made no
\* network call.
C11_LaunchOnlyWithConfig ==
    /\ C11_Launching => ~cli.args.setup /\ config_file.exists
    /\ (cli.args.setup /\ cli.pc = "exited") =>
           /\ cli.exit_status = Some(0)
           /\ cli.printed = <<[text |-> C11_Text.setup, json |-> None]>>
           /\ cli.mkdirs = <<>>
           /\ ~cli.read_config
           /\ cli.runs = <<>>
    /\ (~cli.args.setup /\ ~config_file.exists /\ cli.pc = "exited") =>
           /\ cli.exit_status # None /\ cli.exit_status # Some(0)
           /\ \E i, j \in DOMAIN cli.printed :
                  /\ i < j
                  /\ cli.printed[i].json = Some(C11_Cloud)
                  /\ cli.printed[j].json = Some(C11_DataCenter)
           /\ Cardinality({i \in DOMAIN cli.printed : cli.printed[i].json # None}) = 2
           /\ cli.runs = <<>>
           /\ ~cli.read_config
           /\ C11_NoNetwork

C11_Witness ==
    /\ cli.pc = "exited"
    /\ ~cli.args.setup
    /\ ~config_file.exists
    /\ cli.exit_status = Some(1)
    /\ cli.printed[3].json = Some(C11_Cloud)

C12_Text ==
    [ intro |-> <<"I"," ","n","e","e","d"," ","t","o"," ","c","r","e","a","t","e"," ","a"," ",
        "J","i","r","a"," ","i","s","s","u","e"," ","i","n"," ","p","r","o","j","e","c","t"," ">>,
      dot |-> <<".","\n">>,
      here |-> <<"\n","H","e","r","e","'","s"," ","w","h","a","t"," ","I"," ","w","a","n","t",
          " ","t","o"," ","c","r","e","a","t","e",":","\n">>,
      ask |-> <<"\n","P","l","e","a","s","e"," ","a","s","k"," ","m","e"," ","w","h","a","t",
          " ","I"," ","w","a","n","t"," ","t","o"," ","c","r","e","a","t","e",".">>,
      fallback |-> <<"P","R","O","J">> ]

\* The places where sub occurs in s.
C12_Occurrences(s, sub) ==
    {i \in 1..(Len(s) - Len(sub) + 1) : SubSeq(s, i, i + Len(sub) - 1) = sub}

\* The free text of the command line: its words joined by spaces.
C12_Request ==
    IF cli.args.text = <<>> THEN <<>>
    ELSE IF Len(cli.args.text) = 1 THEN cli.args.text[1]
    ELSE cli.args.text[1] \o <<" ">> \o cli.args.text[2]

\* The project key the prompt is to name.
C12_Project ==
    IF cli.args.project # None /\ cli.args.project[1] # <<>> THEN cli.args.project[1]
    ELSE IF "default_project" \in DOMAIN config_file.data
    THEN config_file.data.default_project
    ELSE C12_Text.fallback

\* C12: the prompt names exactly one project key, the explicit project
\* argument when one is given and otherwise the configured default_project
\* ("PROJ" when the configuration has none); and it has the user's request
\* when text was given and otherwise the instruction to ask, never both and
\* never neither.
C12_PromptProjectAndRequest ==
    cli.prompt # None =>
        /\ C12_Occurrences(cli.prompt[1], C12_Text.intro) = {1}
        /\ 1 \in C12_Occurrences(cli.prompt[1],
                                 C12_Text.intro \o C12_Project \o C12_Text.dot)
        /\ C12_Request # <<>> =>
               /\ C12_Occurrences(cli.prompt[1], C12_Text.here \o C12_Request) # {}
               /\ C12_Occurrences(cli.prompt[1], C12_Text.ask) = {}
        /\ C12_Request = <<>> =>
               /\ C12_Occurrences(cli.prompt[1], C12_Text.here) = {}
               /\ Cardinality(C12_Occurrences(cli.prompt[1], C12_Text.ask)) = 1

C12_Witness ==
    /\ cli.prompt # None
    /\ cli.args.project = Some(CliGiven.project)
    /\ "default_project" \in DOMAIN config_file.data
    /\ cli.args.text = <<CliGiven.login, CliGiven.fails>>
    /\ C12_Occurrences(cli.prompt[1], C12_Text.here \o C12_Request) # {}

\* The override files of the directory that can be read, and those that cannot.
C13_Readable == {i \in DOMAIN template_dir.files : template_dir.files[i].readable}

\* C13: whatever override files are unreadable, the template store is
\* constructed, an unreadable file contributes no template, and every
\* readable override file of the directory is loaded as an override.
C13_OnlyBadFilesSkipped ==
    template_dir.exists =>
        /\ DOMAIN template_manager = {"default_templates", "custom_templates"}
        /\ \A i \in DOMAIN template_dir.files :
               LET file == template_dir.files[i]
               IN IF i \in C13_Readable
                  THEN /\ HasKey(template_manager.custom_templates, file.stem)
                       /\ Item(template_manager.custom_templates, file.stem) = file.text
                  ELSE ~HasKey(template_manager.custom_templates, file.stem)
        /\ (lookup # None /\ lookup[1].op = "get_all_templates") =>
               \A i \in C13_Readable :
                   \E k \in DOMAIN lookup[1].result :
                       lookup[1].result[k] =
                           <<template_dir.files[i].stem, template_dir.files[i].text>>

\* The tasks standing at one of pcs.
C14_At(pcs) == {i \in DOMAIN loop.tasks : loop.tasks[i].pc \in pcs}

\* C14: however the calls arrive, at most one remote call is in flight; a
\* handler runs from its client check to its response without another call
\* beginning in between; and at most one call creates a client.
C14_OneCallAtATime ==
    /\ Cardinality(C14_At({"in_call"})) <= 1
    /\ Cardinality(C14_At({"check", "construct", "call", "in_call", "format"})) <= 1
    /\ Cardinality({i \in DOMAIN loop.tasks : loop.tasks[i].made}) <= 1
    /\ connections <= 1
    /\ loop.running # 0 =>
           C14_At({"check", "construct", "call", "in_call", "format"}) \subseteq {loop.running}

C14_Witness ==
    \E i, j, k \in DOMAIN loop.tasks :
        /\ loop.tasks[i].pc = "done" /\ loop.tasks[i].made
        /\ loop.tasks[j].pc = "in_call"
        /\ loop.tasks[k].pc = "ready"
        /\ loop.tasks[k].name # ToolName.get_issue_templates

C15_Text ==
    [ error |-> <<"E","r","r","o","r",":"," ">> ]

\* The call that was just answered lacked an argument its tool requires.
C15_LacksRequired ==
    \/ /\ Called(ToolName.create_jira_issue)
       /\ \E f \in {"project", "issue_type", "summary", "description"} : Arguments[f] = None
    \/ Called(ToolName.search_jira_issues) /\ Arguments.query = None
    \/ Called(ToolName.get_jira_issue) /\ Arguments.issue_key = None
    \/ Called(ToolName.get_project_metadata) /\ Arguments.project_key = None

\* C15: a call that lacks a required argument is answered with one
\* "Error: ..." text block, and the call has neither created the client
\* adapter nor opened a connection nor made a remote call.
C15_ValidatedBeforeAdapter ==
    C15_LacksRequired =>
        /\ Len(response) = 1
        /\ response[1].type = "text"
        /\ SubSeq(response[1].text, 1, Len(C15_Text.error)) = C15_Text.error
        /\ connects = <<>>
        /\ remote_calls = <<>>

C16_Text ==
    [ goodbye |-> <<"\n","\n","G","o","o","d","b","y","e","!">> ]

\* The external program was started, or starting it was tried.
C16_SessionEnded == cli.session # None

\* C16: once the launcher has changed into its own directory, however the
\* session ends (the program returns with any status, the user interrupts,
\* the program cannot be started) the launcher is back in the original
\* working directory when it terminates, and it terminates with status 0; an
\* interrupt is answered with "Goodbye!" and no exception escapes.  A
\* non-zero status only ends a run that never got to start the program.
C16_RestoresDirectory ==
    /\ cli.pc \in {"session", "finally"} => cli.cwd = "jissue" /\ cli.original_dir = "original"
    /\ cli.pc = "exited" =>
           /\ cli.cwd = "original"
           /\ C16_SessionEnded => cli.exit_status = Some(0) /\ cli.error = None
           /\ (C16_SessionEnded /\ cli.session[1].how = "interrupted") =>
                  cli.printed[Len(cli.printed)] = [text |-> C16_Text.goodbye, json |-> None]
           /\ cli.exit_status # Some(0) =>
                  /\ ~C16_SessionEnded
                  /\ \A i \in DOMAIN cli.runs : cli.runs[i].argv[1] # "claude"
                  /\ \/ ~config_file.exists
                     \/ ~config_file.valid
                     \/ cli.runs = <<[argv |-> <<"which", "claude">>, cwd |-> "original"]>>

C16_Witness ==
    /\ cli.pc = "exited"
    /\ C16_SessionEnded
    /\ cli.session[1].how = "failed"
    /\ cli.cwd = "original"
    /\ cli.exit_status = Some(0)

C17_Text ==
    [ failed |-> <<"E","r","r","o","r",":"," ","F","a","i","l","e","d"," ","t","o"," ","g","e",
        "t"," ","p","r","o","j","e","c","t"," ","m","e","t","a","d","a","t","a",":"," ">>,
      h1 |-> <<"#"," ">>,
      rest |-> <<" ","-"," ","P","r","o","j","e","c","t","\n","\n","#","#"," ","A","v","a","i",
          "l","a","b","l","e"," ","P","r","i","o","r","i","t","i","e","s","\n","-"," ","H","i",
              "g","h","\n","-"," ","L","o","w","\n","\n","#","#"," ","A","v","a","i","l","a",
                  "b","l","e"," ","I","s","s","u","e"," ","T","y","p","e","s","\n","-"," ","B",
                      "u","g","\n","-"," ","T","a","s","k","\n">> ]

C17_Asked == Called(ToolName.get_project_metadata) /\ remote_calls # <<>>

C18_OperationsAgree ==
    lookup # None =>
        LET all == get_all_templates(template_manager)
            names == list_templates(template_manager)
        IN /\ lookup[1].op = "list_templates" =>
                  /\ lookup[1].result = [i \in DOMAIN all |-> all[i][1]]
                  /\ \A i \in DOMAIN lookup[1].result :
                         get_template(template_manager, lookup[1].result[i]) =
                             Some(all[i][2])
           /\ lookup[1].op = "get_template" =>
                  /\ \A i \in DOMAIN names :
                         names[i] = lookup[1].arg[1] =>
                             lookup[1].result = Some(all[i][2])
                  /\ (\A i \in DOMAIN names : names[i] # Lower(lookup[1].arg[1])) =>
                         lookup[1].result = None

C19_Text ==
    [ no_priority |-> <<"*","*","P","r","i","o","r","i","t","y",":","*","*"," ","N","o","n","e">>,
      no_assignee |-> <<"*","*","A","s","s","i","g","n","e","e",":","*","*"," ","N","o","n","e">>,
      na |-> <<"*","*","P","r","i","o","r","i","t","y",":","*","*"," ","N","/","A","\n">>,
      unassigned |-> <<"*","*","A","s","s","i","g","n","e","e",":","*","*"," ","U","n","a","s",
          "s","i","g","n","e","d","\n">>,
      lacking |-> <<"#"," ","P","R","O","J","-","2",":"," ">> ]

\* The text of the answer to a call that ended without an error.
C19_Answered(name) == Called(name) /\ logged = None /\ Len(response) = 1

\* C19: when the remote's issue has no priority or no assignee, get_jira_issue
\* shows "N/A" and "Unassigned" and search_jira_issues shows "N/A"; the text
\* "None" never stands in their place.
C19_FallbacksShown ==
    /\ C19_Answered(ToolName.get_jira_issue) =>
           /\ C12_Occurrences(response[1].text, C19_Text.no_priority) = {}
           /\ C12_Occurrences(response[1].text, C19_Text.no_assignee) = {}
           /\ C12_Occurrences(response[1].text, C19_Text.lacking) # {} =>
                  /\ C12_Occurrences(response[1].text, C19_Text.na) # {}
                  /\ C12_Occurrences(response[1].text, C19_Text.unassigned) # {}
    /\ C19_Answered(ToolName.search_jira_issues) =>
           /\ C12_Occurrences(response[1].text, C19_Text.no_priority) = {}
           /\ C12_Occurrences(response[1].text, C19_Text.lacking) # {} =>
                  C12_Occurrences(response[1].text, C19_Text.na) # {}

====
